---- MODULE Spec2Model ----
(***************************************************************************)
(* A model of lahar (src/lahar.h): the window / swapchain lifecycle and   *)
(* the per-window frame state machine BEGIN -> DRAW -> PRESENT -> BEGIN.  *)
(*                                                                         *)
(* The program's state is the Lahar struct (status of the environment,    *)
(* the gpu allocator, the windows array).  The Vulkan driver is modelled  *)
(* by what the program can observe or break: the set of live handles, the *)
(* state of every fence, and a record of invalid API uses.  Every call    *)
(* into the driver that can fail draws its outcome from a small set.      *)
(***************************************************************************)
EXTENDS Integers, Sequences, FiniteSets, TLC

VARIABLES
    status,         \* "init" | "built" | "deinit" | "hung" | "trapped" | "crashed"
    gpu_allocator,  \* lahar->gpu_allocator != NULL
    windows,        \* lahar->windows[0 .. window_count-1], as a sequence
    vk,             \* the driver: [live: handles, misuse: invalid uses seen]
    gen,            \* number of swapchains created so far (names the handles)
    faults,         \* number of driver or callback calls that failed during a build or a recreation
    pc,             \* <<"idle", "none">>, or <<"frame_begin", window>> inside the recursive retry
    last,           \* the last call: [op, window, arg, ret, calls, barrier]
    env             \* the rest of the Lahar struct (device_name, score_func, instance,
                    \* device, physdev_info, wantvalidation, extensions, ...) and the
                    \* machine it runs on (devices, instance_extensions, surface_caps,
                    \* window_size): see InitEnv

vars == <<status, gpu_allocator, windows, vk, gen, faults, pc, last, env>>

----------------------------------------------------------------------------
(* Bounds of the model.                                                    *)

MaxInFlight == 2    \* largest max_in_flight a window is configured with
MaxImages == 2      \* largest image count a swapchain reports
MaxGen == 3         \* swapchains created in one run
MaxFaults == 1      \* failing driver calls injected into builds and recreations in one run
MaxDevices == 2     \* physical devices the driver enumerates
LAHAR_MAX_DEVICE_ENTRIES == 2   \* formats and present modes kept per device (16 by default)

(* Inputs.                                                                 *)

WindowHandles == {"w1"}
ImgCounts == 1..MaxImages
InFlightCfgs == 0..MaxInFlight
DesiredCfgs == {0, 2}
AttachmentCfgs == 0..2

----------------------------------------------------------------------------
(* LaharFramePhase (src/lahar.h:272-276), the LaharResult codes           *)
(* (src/lahar.h:195-210) and the image layouts told apart by              *)
(* __lahar_access_mask (src/lahar.h:3881-3900).                           *)

PHASE_BEGIN == "BEGIN"
PHASE_DRAW == "DRAW"
PHASE_PRESENT == "PRESENT"
LaharFramePhase == {PHASE_BEGIN, PHASE_DRAW, PHASE_PRESENT}

ERR_SUCCESS == "SUCCESS"
ERR_ILLEGAL_PARAMS == "ILLEGAL_PARAMS"
ERR_INVALID_CONFIGURATION == "INVALID_CONFIGURATION"
ERR_MISSING_EXTENSION == "MISSING_EXTENSION"
ERR_NO_SUITABLE_DEVICE == "NO_SUITABLE_DEVICE"
ERR_DEPENDENCY_FAILED == "DEPENDENCY_FAILED"
ERR_ALLOC_FAILED == "ALLOC_FAILED"
ERR_INVALID_STATE == "INVALID_STATE"
ERR_VK_ERR == "VK_ERR"
ERR_INVALID_WINDOW == "INVALID_WINDOW"
ERR_NO_COMMAND_BUFFER == "NO_COMMAND_BUFFER"
ERR_SWAPCHAIN_OUT_OF_DATE == "SWAPCHAIN_OUT_OF_DATE"
ERR_INVALID_FRAME_STATE == "INVALID_FRAME_STATE"
ERR_ATTACHMENT_WO_ALLOCATOR == "ATTACHMENT_WO_ALLOCATOR"

LAYOUT_UNDEFINED == "UNDEFINED"
LAYOUT_COLOR == "COLOR_ATTACHMENT_OPTIMAL"
LAYOUT_PRESENT_SRC == "PRESENT_SRC_KHR"
LAYOUT_DEPTH_STENCIL == "DEPTH_STENCIL_ATTACHMENT_OPTIMAL"
LAYOUT_SHADER_READ_ONLY == "SHADER_READ_ONLY_OPTIMAL"
LAYOUT_TRANSFER_SRC == "TRANSFER_SRC_OPTIMAL"
LAYOUT_TRANSFER_DST == "TRANSFER_DST_OPTIMAL"
LAYOUT_GENERAL == "GENERAL"
TransitionTargets == {LAYOUT_COLOR, LAYOUT_PRESENT_SRC}

(* VkResult values of acquire and present the code tells apart.           *)
VK_SUCCESS == "VK_SUCCESS"
VK_SUBOPTIMAL == "VK_SUBOPTIMAL_KHR"
VK_OUT_OF_DATE == "VK_ERROR_OUT_OF_DATE_KHR"
VK_ERROR == "VK_ERROR_DEVICE_LOST"
VkResults == {VK_SUCCESS, VK_SUBOPTIMAL, VK_OUT_OF_DATE, VK_ERROR}

AllLayouts ==
    {LAYOUT_UNDEFINED, LAYOUT_COLOR, LAYOUT_PRESENT_SRC, LAYOUT_DEPTH_STENCIL,
     LAYOUT_SHADER_READ_ONLY, LAYOUT_TRANSFER_SRC, LAYOUT_TRANSFER_DST, LAYOUT_GENERAL}

(* __lahar_access_mask, __lahar_pipeline_stage: flag words as sets of bits. *)
access_mask(layout) ==
    CASE layout = LAYOUT_UNDEFINED -> {}
      [] layout = LAYOUT_PRESENT_SRC -> {}
      [] layout = LAYOUT_COLOR -> {"COLOR_ATTACHMENT_READ", "COLOR_ATTACHMENT_WRITE"}
      [] layout = LAYOUT_DEPTH_STENCIL -> {"DEPTH_STENCIL_ATTACHMENT_READ", "DEPTH_STENCIL_ATTACHMENT_WRITE"}
      [] layout = LAYOUT_SHADER_READ_ONLY -> {"SHADER_READ"}
      [] layout = LAYOUT_TRANSFER_SRC -> {"TRANSFER_READ"}
      [] layout = LAYOUT_TRANSFER_DST -> {"TRANSFER_WRITE"}
      [] OTHER -> {}

pipeline_stage(layout) ==
    CASE layout = LAYOUT_UNDEFINED -> {"TOP_OF_PIPE"}
      [] layout = LAYOUT_PRESENT_SRC -> {"BOTTOM_OF_PIPE"}
      [] layout = LAYOUT_COLOR -> {"COLOR_ATTACHMENT_OUTPUT"}
      [] layout = LAYOUT_DEPTH_STENCIL -> {"EARLY_FRAGMENT_TESTS", "LATE_FRAGMENT_TESTS"}
      [] layout = LAYOUT_SHADER_READ_ONLY -> {"FRAGMENT_SHADER"}
      [] layout \in {LAYOUT_TRANSFER_SRC, LAYOUT_TRANSFER_DST} -> {"TRANSFER"}
      [] OTHER -> {"ALL_COMMANDS"}

(* Image usages, formats (__lahar_aspect_mask_from_usage,                 *)
(* src/lahar.h:3922-3939), color spaces and present modes (the default    *)
(* choosers, src/lahar.h:2300-2327).                                      *)
USAGE_NONE == "NONE"
USAGE_COLOR == "COLOR_ATTACHMENT"
USAGE_DEPTH_STENCIL == "DEPTH_STENCIL_ATTACHMENT"

FORMAT_UNDEFINED == "UNDEFINED"
FORMAT_B8G8R8A8_SRGB == "B8G8R8A8_SRGB"
FORMAT_R8G8B8A8_UNORM == "R8G8B8A8_UNORM"
FORMAT_D16_UNORM == "D16_UNORM"
FORMAT_D32_SFLOAT == "D32_SFLOAT"
FORMAT_D24_UNORM_S8_UINT == "D24_UNORM_S8_UINT"
FORMAT_D32_SFLOAT_S8_UINT == "D32_SFLOAT_S8_UINT"
FORMAT_S8_UINT == "S8_UINT"

COLORSPACE_SRGB_NONLINEAR == "SRGB_NONLINEAR"
COLORSPACE_OTHER == "DISPLAY_P3_NONLINEAR"

PRESENT_MODE_IMMEDIATE == "IMMEDIATE"      \* the value 0
PRESENT_MODE_MAILBOX == "MAILBOX"
PRESENT_MODE_FIFO == "FIFO"

SurfaceFormat(format, colorSpace) == [format |-> format, colorSpace |-> colorSpace]
ZeroSurfaceFormat == SurfaceFormat(FORMAT_UNDEFINED, COLORSPACE_SRGB_NONLINEAR)     \* both 0

AttachmentConfig(usage, format) == [usage |-> usage, format |-> format]

(* __lahar_aspect_mask_from_usage.                                         *)
aspect_mask_from_usage(usage, format) ==
    IF usage = USAGE_DEPTH_STENCIL
    THEN CASE format \in {FORMAT_D24_UNORM_S8_UINT, FORMAT_D32_SFLOAT_S8_UINT} -> {"DEPTH", "STENCIL"}
           [] format \in {FORMAT_D16_UNORM, FORMAT_D32_SFLOAT} -> {"DEPTH"}
           [] format = FORMAT_S8_UINT -> {"STENCIL"}
           [] OTHER -> {"DEPTH"}
    ELSE {"COLOR"}

(* The VkImageMemoryBarrier and the stages that                            *)
(* lahar_window_attachment_transition hands to vkCmdPipelineBarrier for   *)
(* this attachment instance (lines 3953-3981).                             *)
transition_barrier(ws, attachment_index, layout) ==
    LET attachment == ws.attachments[attachment_index][ws.frame_index]
        conf == ws.attachment_configs[attachment_index]
    IN  [srcAccessMask |-> access_mask(attachment.layout),
         dstAccessMask |-> access_mask(attachment.layout),
         oldLayout |-> attachment.layout,
         newLayout |-> layout,
         image |-> attachment.image,
         aspectMask |-> aspect_mask_from_usage(conf.usage, ws.surface_format.format),
         srcStage |-> pipeline_stage(attachment.layout),
         dstStage |-> pipeline_stage(attachment.layout)]

(* What the surface of a window reports, and the window's size.           *)
DefaultCaps ==
    [minImageCount |-> 1, maxImageCount |-> 0,
     minImageExtent |-> <<1, 1>>, maxImageExtent |-> <<4, 4>>]
DefaultSize == <<2, 2>>
DefaultSurfaceFormats == <<SurfaceFormat(FORMAT_B8G8R8A8_SRGB, COLORSPACE_SRGB_NONLINEAR)>>
DefaultPresentModes == <<PRESENT_MODE_FIFO>>

(* The VkSwapchainCreateInfoKHR of a window's swapchain: not a field of   *)
(* the window state, it is what vkCreateSwapchainKHR was handed.          *)
NoCreateInfo == [imageExtent |-> <<0, 0>>, minImageCount |-> 0, presentMode |-> PRESENT_MODE_IMMEDIATE]

----------------------------------------------------------------------------
(* Handles.  VK_NULL_HANDLE is NullHandle; a created object is named by   *)
(* the generation of the swapchain it belongs to.                          *)

NullHandle == <<"null", 0, 0, 0>>
InstanceHandle == <<"instance", 0, 0, 0>>
MessengerHandle == <<"debug_messenger", 0, 0, 0>>
DeviceHandle == <<"device", 0, 0, 0>>
SurfaceHandle(wi) == <<"surface", wi, 0, 0>>
SwapHandle(g) == <<"swapchain", g, 0, 0>>
ViewHandle(g, a, i) == <<"view", g, a, i>>
ImageHandle(g, a, i) == <<"image", g, a, i>>

(* LaharAttachment after memset(0).                                        *)
ZeroAttachment == [image |-> NullHandle, view |-> NullHandle, layout |-> LAYOUT_UNDEFINED]

(* vkDestroy* of a set of handles: destroying a handle that is not live   *)
(* (already destroyed, or never created) is an invalid use.               *)
DestroyAll(v, hs) ==
    [live |-> v.live \ hs,
     misuse |-> IF hs \subseteq v.live THEN v.misuse ELSE v.misuse \cup {"destroy_dead"}]

Misuse(v, what) == [v EXCEPT !.misuse = @ \cup {what}]

(* Fences.  "signaled"; "pending": unsignaled, a submission will signal   *)
(* it; "unsignaled": reset and nothing submitted; "uninit": malloc'ed and *)
(* never created.                                                          *)
FenceStates == {"signaled", "pending", "unsignaled", "uninit"}

(* vkWaitForFences(.., slots, VK_TRUE, UINT64_MAX) returns once every      *)
(* fence is signaled: submitted work completes meanwhile; a fence nothing  *)
(* will signal blocks the caller forever.                                  *)
WaitBlocksForever(in_flight, slots) ==
    \E s \in slots : in_flight[s] \in {"unsignaled", "uninit"}

AfterWait(in_flight, slots) ==
    [s \in DOMAIN in_flight |->
        IF s \in slots /\ in_flight[s] = "pending" THEN "signaled" ELSE in_flight[s]]

(* The submissions still executing per flight slot, after such a wait.    *)
WorkAfterWait(gpu_work, in_flight, slots) ==
    [s \in DOMAIN gpu_work |->
        IF s \in slots /\ in_flight[s] = "pending" THEN 0 ELSE gpu_work[s]]

(* Number of entries of a C array modelled as a function on 0..n-1.       *)
Len2(arr) == Cardinality(DOMAIN arr)

Slots(ws) == 0..(ws.max_in_flight - 1)

(* Frames whose submitted GPU work has not completed.                      *)
Pending(ws) == {s \in DOMAIN ws.in_flight : ws.in_flight[s] = "pending"}

(* Number of submitted frames of the window the GPU has not completed.    *)
RECURSIVE SumWork(_, _)
SumWork(gpu_work, n) == IF n = 0 THEN 0 ELSE gpu_work[n - 1] + SumWork(gpu_work, n - 1)

InFlightFrames(ws) == SumWork(ws.gpu_work, Len2(ws.gpu_work))

----------------------------------------------------------------------------
(* lahar_window_state: the index of the first window state with this      *)
(* handle, 0 when there is none (NULL).                                    *)

lahar_window_state_first(wins, window) ==     \* seeded fault: the first state, whatever
    IF \E i \in 1..Len(wins) : wins[i].window = window THEN 1 ELSE 0    \* its handle

lahar_window_state(wins, window) ==
    IF \E i \in 1..Len(wins) : wins[i].window = window
    THEN CHOOSE i \in 1..Len(wins) :
            /\ wins[i].window = window
            /\ \A j \in 1..(i - 1) : wins[j].window # window
    ELSE 0

(* A window state as memset(0) leaves it.  gpu_work is not a field of the *)
(* struct: it is the queue's side of the in_flight fences, the number of  *)
(* submissions per flight slot that are still executing.                  *)
(* img_info_extent[a] is attachment_configs[a].img_info.extent (width and *)
(* height), the template every image of attachment a is allocated from.   *)
ZeroWindowState(window) ==
    [window |-> window,
     surface |-> NullHandle,
     desired_img_count |-> 0,
     max_in_flight |-> 0,
     frame_phase |-> PHASE_BEGIN,
     auto_recreate_swap |-> FALSE,
     swapchain |-> NullHandle,
     swap_size |-> 0,
     image_available |-> <<>>,
     render_finished |-> <<>>,
     in_flight |-> <<>>,
     gpu_work |-> <<>>,
     flight_index |-> 0,
     frame_index |-> 0,
     attachment_count |-> 0,
     attachment_configs |-> <<>>,
     surface_format |-> ZeroSurfaceFormat,
     create_info |-> NoCreateInfo,
     width |-> 0,
     height |-> 0,
     img_info_extent |-> <<>>,
     attachments |-> <<>>]

(* The attachment configurations of a window configuration: those it      *)
(* lists, or else those of the profiles of lahar_builder_window_register  *)
(* ({0} for the color attachment, a D32_SFLOAT depth attachment after it).*)
ConfAttachments(conf) ==
    IF "attachments" \in DOMAIN conf THEN conf.attachments
    ELSE [a \in 0..(conf.attachment_count - 1) |->
            IF a = 0 THEN AttachmentConfig(USAGE_NONE, FORMAT_UNDEFINED)
            ELSE AttachmentConfig(USAGE_DEPTH_STENCIL, FORMAT_D32_SFLOAT)]

(* lahar_builder_window_register_ex after the size query succeeded.       *)
RegisteredWindowState_nodefault(window, conf) ==    \* seeded fault: max_in_flight 0 is kept
    [ZeroWindowState(window) EXCEPT
        !.attachment_count = conf.attachment_count,
        !.desired_img_count = IF conf.desired_swap_size # 0 THEN conf.desired_swap_size ELSE 2,
        !.max_in_flight = conf.max_in_flight,
        !.auto_recreate_swap = ~conf.no_auto_swap_resize,
        !.attachment_configs = ConfAttachments(conf),
        !.img_info_extent = [a \in 0..(conf.attachment_count - 1) |-> <<0, 0>>],
        !.attachments = [a \in 0..(conf.attachment_count - 1) |-> <<>>]]

RegisteredWindowState(window, conf) ==
    [ZeroWindowState(window) EXCEPT
        !.attachment_count = conf.attachment_count,
        !.desired_img_count = IF conf.desired_swap_size # 0 THEN conf.desired_swap_size ELSE 2,
        !.max_in_flight = IF conf.max_in_flight # 0 THEN conf.max_in_flight ELSE 2,
        !.auto_recreate_swap = ~conf.no_auto_swap_resize,
        !.attachment_configs = ConfAttachments(conf),
        !.img_info_extent = [a \in 0..(conf.attachment_count - 1) |-> <<0, 0>>],
        !.attachments = [a \in 0..(conf.attachment_count - 1) |-> <<>>]]

WindowConfigs(counts) ==
    [attachment_count : counts,
     desired_swap_size : DesiredCfgs,
     max_in_flight : InFlightCfgs,
     no_auto_swap_resize : BOOLEAN]

Idle == <<"idle", "none">>

(* The application goes on calling while the process runs and the driver  *)
(* has been used validly: after an invalid use nothing is defined.        *)
Running(st) == status = st /\ vk.misuse = {}

Fault(fail) == IF fail = "none" THEN 0 ELSE 1

(* The record of a call: its arguments beyond the window as a tuple, its  *)
(* return code ("NO_RETURN" when it does not return) and what it did.     *)
(* For a queue call of submit and present, driver holds what the driver    *)
(* returned and vkresult what lahar->vkresult holds when the call returns. *)
CallArg(op, window, arg, ret, calls) ==
    [op |-> op, window |-> window, arg |-> arg, ret |-> ret, calls |-> calls, barrier |-> <<>>,
     driver |-> <<>>, vkresult |-> <<>>]

(* `lahar->vkresult = vkQueueSubmit(...)`, `lahar->vkresult =              *)
(* vkQueuePresentKHR(...)` (lines 3833, 3869): the raw result is stored    *)
(* whatever it is.                                                         *)
queue_call_keep_old(call, res) ==     \* seeded fault: the result is tested and not stored
    [call EXCEPT !.driver = <<res>>]

queue_call(call, res) ==
    [call EXCEPT !.driver = <<res>>, !.vkresult = <<res>>]

Call(op, window, ret, calls) == CallArg(op, window, <<>>, ret, calls)


----------------------------------------------------------------------------
(* Physical devices.  A device as the driver describes it: its name, its  *)
(* type, its queue families (the graphics bit, and the windows on whose   *)
(* surface the family can present) and its memory heaps (size in GB).     *)

BuildWindowHandles == {"w1", "w2"}
DeviceNames == {"a", "b"}
DeviceTypes == {"DISCRETE_GPU", "INTEGRATED_GPU", "CPU"}

Family(graphics, present_on) == [graphics |-> graphics, present_on |-> present_on]
Heap(device_local, size) == [device_local |-> device_local, size |-> size]
Device(name, type, families, heaps) ==
    [name |-> name, deviceType |-> type, families |-> families, heaps |-> heaps]

FamilyLists ==
    {<<>>,
     <<Family(TRUE, {})>>,
     <<Family(FALSE, BuildWindowHandles)>>,
     <<Family(TRUE, BuildWindowHandles)>>,
     <<Family(TRUE, {}), Family(FALSE, BuildWindowHandles)>>,
     <<Family(FALSE, BuildWindowHandles), Family(TRUE, {})>>,
     <<Family(TRUE, {}), Family(FALSE, BuildWindowHandles), Family(TRUE, BuildWindowHandles)>>,
     <<Family(TRUE, {"w1"})>>}

SmallHeaps == <<Heap(TRUE, 8)>>
LargeHeaps == <<Heap(TRUE, 100), Heap(FALSE, 16)>>

(* The devices a machine may have.                                         *)
DeviceCatalogue ==
    {Device("a", t, <<Family(TRUE, BuildWindowHandles)>>, h) : t \in DeviceTypes, h \in {SmallHeaps, LargeHeaps}}
        \cup {Device("a", "DISCRETE_GPU", f, SmallHeaps) : f \in FamilyLists}
        \cup {Device("b", t, f, SmallHeaps) :
                t \in {"DISCRETE_GPU", "INTEGRATED_GPU"},
                f \in {<<>>, <<Family(TRUE, BuildWindowHandles)>>}}

Enumerations == UNION {[1..n -> DeviceCatalogue] : n \in 0..MaxDevices}

(* The machine of src/main.c's run: one discrete GPU.                      *)
DefaultDevices == <<Device("a", "DISCRETE_GPU", <<Family(TRUE, BuildWindowHandles)>>, SmallHeaps)>>

(* LaharDeviceInfo after memset(0) (line 3313); physdev 0 is no device,   *)
(* physdev i the i-th enumerated device.                                   *)
NoDevice ==
    [physdev |-> 0, name |-> "", deviceType |-> "OTHER", memprops |-> <<>>,
     surface_formats |-> <<>>, present_modes |-> <<>>,
     surface_fmt_count |-> 0, present_mode_count |-> 0,
     graphics_queue_index |-> 0, present_queue_index |-> 0,
     has_graphics_queue |-> FALSE, has_present_queue |-> FALSE]

(* Lines 3325-3348: the scan of the queue families, from family j (1 is   *)
(* the C index 0) on.                                                      *)
RECURSIVE ScanFamilies(_, _, _, _)
ScanFamilies(families, j, devinfo, wins) ==
    IF j > Len(families) THEN devinfo
    ELSE LET g == IF families[j].graphics
                  THEN [devinfo EXCEPT !.graphics_queue_index = j - 1, !.has_graphics_queue = TRUE]
                  ELSE devinfo
             presentSupport == \A k \in 1..Len(wins) : wins[k].window \in families[j].present_on
             gp == IF presentSupport
                   THEN [g EXCEPT !.has_present_queue = TRUE, !.present_queue_index = j - 1]
                   ELSE g
         IN  IF gp.has_graphics_queue /\ gp.has_present_queue THEN gp
             ELSE ScanFamilies(families, j + 1, gp, wins)

(* What the device reports for the surface of the first window: the      *)
(* lists the device record gives, or else the defaults.                   *)
DevSurfaceFormats(dev) ==
    IF "surface_formats" \in DOMAIN dev THEN dev.surface_formats ELSE DefaultSurfaceFormats
DevPresentModes(dev) ==
    IF "present_modes" \in DOMAIN dev THEN dev.present_modes ELSE DefaultPresentModes

(* Lines 3363-3367: the first to_copy entries of a reported list; the     *)
(* entries of the array after them stay zero.                              *)
Captured(reported) ==
    SubSeq(reported, 1, IF Len(reported) > LAHAR_MAX_DEVICE_ENTRIES
                        THEN LAHAR_MAX_DEVICE_ENTRIES ELSE Len(reported))

(* Lines 3310-3369: the LaharDeviceInfo of the i-th device.  The two       *)
(* counts are never written: they stay as memset left them.  memprops is  *)
(* never queried: it stays as memset left it.                              *)
DevInfo(dev, i, wins) ==
    LET scanned == ScanFamilies(dev.families, 1,
                        [NoDevice EXCEPT !.physdev = i, !.name = dev.name,
                                         !.deviceType = dev.deviceType],
                        wins)
    IN  IF Len(wins) > 0
        THEN [scanned EXCEPT !.surface_formats = Captured(DevSurfaceFormats(dev)),
                             !.present_modes = Captured(DevPresentModes(dev))]
        ELSE scanned

RECURSIVE LocalMemory(_, _)
LocalMemory(heaps, n) ==
    IF n = 0 THEN 0
    ELSE (IF heaps[n].device_local THEN heaps[n].size ELSE 0) + LocalMemory(heaps, n - 1)

default_scorer_noqueues(devinfo) ==    \* seeded fault: the queues are not looked at
    (IF devinfo.deviceType = "DISCRETE_GPU" THEN 1000
     ELSE IF devinfo.deviceType = "INTEGRATED_GPU" THEN 100 ELSE 0)
    + (IF devinfo.present_queue_index = devinfo.graphics_queue_index THEN 50 ELSE 0)
    + (LocalMemory(devinfo.memprops, Len(devinfo.memprops)) * 1000) \div 100

(* __lahar_default_scorer; 107374182400 bytes are 100 GB.                  *)
default_scorer(devinfo) ==
    IF ~devinfo.has_graphics_queue \/ ~devinfo.has_present_queue THEN -1
    ELSE (IF devinfo.deviceType = "DISCRETE_GPU" THEN 1000
          ELSE IF devinfo.deviceType = "INTEGRATED_GPU" THEN 100 ELSE 0)
         + (IF devinfo.present_queue_index = devinfo.graphics_queue_index THEN 50 ELSE 0)
         + (LocalMemory(devinfo.memprops, Len(devinfo.memprops)) * 1000) \div 100

(* lahar->score_func: NULL (the default scorer) or the caller's function, *)
(* here a table of scores by device name.                                  *)
DefaultScoring == [custom |-> FALSE, table |-> [n \in DeviceNames |-> 0]]
CustomScoring(table) == [custom |-> TRUE, table |-> table]
CustomScorers ==
    {CustomScoring(t) : t \in {[n \in DeviceNames |-> 5],
                               [n \in DeviceNames |-> -1],
                               [n \in DeviceNames |-> IF n = "a" THEN 0 ELSE 5],
                               [n \in DeviceNames |-> IF n = "a" THEN -1 ELSE 0]}}

Score(score_func, devinfo) ==
    IF score_func.custom THEN score_func.table[devinfo.name] ELSE default_scorer(devinfo)

(* Lines 3377-3382: the first device with the highest score above -1, as  *)
(* [best_dev, best_score] with best_dev the C index, -1 for none.         *)
RECURSIVE SelectBest(_, _, _)
RECURSIVE SelectBest_last(_, _, _)
SelectBest_last(dev_scores, i, best) ==    \* seeded fault: >= keeps the last of the best
    IF i > Len(dev_scores) THEN best
    ELSE SelectBest_last(dev_scores, i + 1,
                         IF dev_scores[i] >= best.best_score
                         THEN [best_dev |-> i - 1, best_score |-> dev_scores[i]]
                         ELSE best)

SelectBest(dev_scores, i, best) ==
    IF i > Len(dev_scores) THEN best
    ELSE SelectBest(dev_scores, i + 1,
                    IF dev_scores[i] > best.best_score
                    THEN [best_dev |-> i - 1, best_score |-> dev_scores[i]]
                    ELSE best)

(* __lahar_build_physdev; enum_ok tells whether vkEnumeratePhysicalDevices *)
(* succeeds.                                                               *)
build_physdev(devices, wins, score_func, enum_ok) ==
    LET dev_infos == [i \in 1..Len(devices) |-> DevInfo(devices[i], i, wins)]
        dev_scores == [i \in 1..Len(devices) |-> Score(score_func, dev_infos[i])]
        best == SelectBest(dev_scores, 1, [best_dev |-> -1, best_score |-> -1])
    IN  IF ~enum_ok THEN [err |-> ERR_VK_ERR, physdev_info |-> NoDevice]
        ELSE IF best.best_dev = -1 THEN [err |-> ERR_NO_SUITABLE_DEVICE, physdev_info |-> NoDevice]
        ELSE [err |-> ERR_SUCCESS, physdev_info |-> dev_infos[best.best_dev + 1]]

(* __lahar_default_surface_format_chooser: an entry of the array past the *)
(* captured ones is zero.                                                  *)
default_surface_format_chooser(physdev_info) ==
    LET at(i) == IF i <= Len(physdev_info.surface_formats)
                 THEN physdev_info.surface_formats[i] ELSE ZeroSurfaceFormat
        hits == {i \in 1..physdev_info.surface_fmt_count :
                    at(i) = SurfaceFormat(FORMAT_B8G8R8A8_SRGB, COLORSPACE_SRGB_NONLINEAR)}
    IN  IF hits # {} THEN at(CHOOSE i \in hits : \A j \in hits : i <= j) ELSE at(1)

(* __lahar_default_surface_present_mode_chooser.                           *)
default_surface_present_mode_chooser(physdev_info) ==
    LET at(i) == IF i <= Len(physdev_info.present_modes)
                 THEN physdev_info.present_modes[i] ELSE PRESENT_MODE_IMMEDIATE
    IN  IF \E i \in 1..physdev_info.present_mode_count : at(i) = PRESENT_MODE_MAILBOX
        THEN PRESENT_MODE_MAILBOX ELSE PRESENT_MODE_FIFO

(* Lines 3524 and 3567: what the default choosers give a window whose     *)
(* swapchain is created.                                                   *)
choose_surface(ws, physdev_info) ==
    [ws EXCEPT !.surface_format = default_surface_format_chooser(physdev_info),
               !.create_info.presentMode = default_surface_present_mode_chooser(physdev_info)]

(* Extension names: VK_KHR_surface is what the window backend asks for   *)
(* (glfwGetRequiredInstanceExtensions), VK_EXT_debug_utils goes with      *)
(* validation, VK_KHR_swapchain is what __lahar_build_device enables; the *)
(* others are names an application registers.  NULL_NAME is a NULL        *)
(* pointer passed for a name.                                              *)
VK_KHR_SURFACE == "VK_KHR_surface"
VK_EXT_DEBUG_UTILS == "VK_EXT_debug_utils"
VK_KHR_SWAPCHAIN == "VK_KHR_swapchain"
NULL_NAME == "NULL"
InstanceExtNames == {"VK_EXT_swapchain_colorspace"}
DeviceExtNames == {"VK_KHR_dynamic_rendering", "VK_EXT_mesh_shader"}
WindowExtensions == <<VK_KHR_SURFACE>>
AllInstanceExtensions == {VK_KHR_SURFACE, VK_EXT_DEBUG_UTILS} \cup InstanceExtNames

(* lahar->extensions after lahar_init: four empty lists.                   *)
NoExtensions ==
    [req_inst_exts |-> <<>>, req_dev_exts |-> <<>>,
     opt_inst_exts |-> <<>>, opt_inst_exts_present |-> <<>>,
     opt_dev_exts |-> <<>>, opt_dev_exts_present |-> <<>>]

(* The extensions a physical device enumerates.                            *)
DevExtensions(dev) ==
    IF "extensions" \in DOMAIN dev THEN dev.extensions ELSE {VK_KHR_SWAPCHAIN}

(* The VkDeviceCreateInfo of __lahar_build_device, as far as the queues    *)
(* and the extensions go; before the device stage, nothing.               *)
NoDeviceCreateInfo == [queueFamilyIndices |-> <<>>, enabledExtensionNames |-> <<>>]

device_create_info(physdev_info) ==
    [queueFamilyIndices |->
        IF physdev_info.graphics_queue_index = physdev_info.present_queue_index
        THEN <<physdev_info.graphics_queue_index>>
        ELSE <<physdev_info.graphics_queue_index, physdev_info.present_queue_index>>,
     enabledExtensionNames |-> <<VK_KHR_SWAPCHAIN>>]

temp_extensions_nodebug(e) ==    \* seeded fault: the debug extension is left out
    e.extensions.req_inst_exts \o WindowExtensions

(* __lahar_temp_extensions: the names handed to vkCreateInstance.          *)
temp_extensions(e) ==
    e.extensions.req_inst_exts \o WindowExtensions
        \o (IF e.wantvalidation THEN <<VK_EXT_DEBUG_UTILS>> ELSE <<>>)

(* lahar_extension_has_instance / lahar_extension_has_device on the lists *)
(* of one scope: the optional list is searched first.                      *)
extension_has(opt_exts, opt_exts_present, req_exts, extension) ==
    LET hits == {i \in 1..Len(opt_exts) : opt_exts[i] = extension}
    IN  IF extension = NULL_NAME THEN FALSE
        ELSE IF hits # {} THEN opt_exts_present[CHOOSE i \in hits : \A j \in hits : i <= j]
        ELSE \E i \in 1..Len(req_exts) : req_exts[i] = extension

(* The Lahar struct beyond the windows, after lahar_init and              *)
(* lahar_builder_request_validation_layers (as src/main.c calls them), on *)
(* a machine with these devices whose loader enumerates                   *)
(* instance_extensions.  instance_create_info, device_create_info: what   *)
(* was handed to vkCreateInstance and vkCreateDevice; surface_caps,       *)
(* window_size: what vkGetPhysicalDeviceSurfaceCapabilitiesKHR and        *)
(* lahar_window_get_size report at the moment.  dev_loaded: the device-level entry points (global *)
(* function pointers) were loaded.                                         *)
(* The scratch arena (lines 2206-2230), static storage of the process     *)
(* and no field of Lahar: mpos is __mpos (in units of one array, not in   *)
(* bytes), mcheck the checkpoint stack __mcheck[0 .. __mchkct - 1]; peak  *)
(* records the largest __mchkct so far.  LAHAR_ASSERT(__mchkct < 16)      *)
(* guards the push.                                                        *)
LAHAR_M_CHECK_CT == 16

NoArena == [mpos |-> 0, mcheck |-> <<>>, peak |-> 0]

lahar_temp_mcheck(ar) ==
    [ar EXCEPT !.mcheck = Append(@, ar.mpos),
               !.peak = IF Len(ar.mcheck) + 1 > @ THEN Len(ar.mcheck) + 1 ELSE @]

lahar_temp_mpop_keep_pos(ar) ==     \* seeded fault: the position is not rolled back
    IF Len(ar.mcheck) > 0
    THEN [ar EXCEPT !.mcheck = SubSeq(@, 1, Len(@) - 1)]
    ELSE ar

lahar_temp_mpop(ar) ==
    IF Len(ar.mcheck) > 0
    THEN [ar EXCEPT !.mpos = ar.mcheck[Len(ar.mcheck)],
                    !.mcheck = SubSeq(@, 1, Len(@) - 1)]
    ELSE ar

lahar_temp_alloc(ar, units) == [ar EXCEPT !.mpos = @ + units]

(* A function that pushes a checkpoint on entry, allocates, and pops at   *)
(* its `end:` label, which every path that returns goes through           *)
(* (the build stages, lines 3126-3168, 3174-3266, 3286-3410, 3416-3494,   *)
(* 3500-3690; the resizer, lines 2333-2535).  returns is FALSE when the   *)
(* process ends inside the function.                                       *)
temp_scope(ar, units, returns) ==
    IF returns
    THEN lahar_temp_mpop(lahar_temp_alloc(lahar_temp_mcheck(ar), units))
    ELSE lahar_temp_alloc(lahar_temp_mcheck(ar), units)

(* The first n build stages that use the arena, one after the other.      *)
RECURSIVE temp_scopes(_, _)
temp_scopes(ar, n) ==
    IF n = 0 THEN ar ELSE temp_scopes(temp_scope(ar, 2, TRUE), n - 1)

InitEnv(devices) ==
    [devices |-> devices,
     arena |-> NoArena,
     device_name |-> "",
     score_func |-> DefaultScoring,
     instance |-> NullHandle,
     debug_messenger |-> NullHandle,
     device |-> NullHandle,
     dev_loaded |-> FALSE,
     physdev_info |-> NoDevice,
     wantvalidation |-> TRUE,
     extensions |-> NoExtensions,
     instance_extensions |-> AllInstanceExtensions,
     instance_create_info |-> <<>>,
     device_create_info |-> NoDeviceCreateInfo,
     surface_caps |-> DefaultCaps,
     window_size |-> DefaultSize]

(* memset(lahar, 0): the struct is zeroed, the globals are not.           *)
ZeroEnv(e) ==
    [InitEnv(e.devices) EXCEPT !.dev_loaded = e.dev_loaded, !.wantvalidation = FALSE,
                               !.arena = e.arena,
                               !.instance_extensions = e.instance_extensions,
                               !.surface_caps = e.surface_caps, !.window_size = e.window_size]

----------------------------------------------------------------------------
Init ==
    /\ status = "init"
    /\ gpu_allocator = FALSE
    /\ windows = <<>>
    /\ vk = [live |-> {}, misuse |-> {}]
    /\ gen = 0
    /\ faults = 0
    /\ pc = Idle
    /\ last = Call("lahar_init", "none", ERR_SUCCESS, {})
    /\ env = InitEnv(DefaultDevices)

(* lahar_init on a machine with any of the enumerations.                   *)
InitPhysdev ==
    /\ status = "init"
    /\ gpu_allocator = FALSE
    /\ windows = <<>>
    /\ vk = [live |-> {}, misuse |-> {}]
    /\ gen = 0
    /\ faults = 0
    /\ pc = Idle
    /\ last = Call("lahar_init", "none", ERR_SUCCESS, {})
    /\ env \in {InitEnv(d) : d \in Enumerations}

(* lahar_builder_device_use; "" is the empty name.                         *)
DeviceUse(name) ==
    /\ Running("init") /\ pc = Idle
    /\ IF name = ""
       THEN /\ last' = Call("device_use", "none", ERR_ILLEGAL_PARAMS, {})
            /\ UNCHANGED env
       ELSE /\ env' = [env EXCEPT !.device_name = name]
            /\ last' = Call("device_use", "none", ERR_SUCCESS, {})
    /\ UNCHANGED <<status, gpu_allocator, windows, vk, gen, faults, pc>>

(* lahar_builder_device_set_scoring with a non-null function.              *)
SetScoring(scorefunc) ==
    /\ Running("init") /\ pc = Idle
    /\ env' = [env EXCEPT !.score_func = scorefunc]
    /\ last' = Call("set_scoring", "none", ERR_SUCCESS, {})
    /\ UNCHANGED <<status, gpu_allocator, windows, vk, gen, faults, pc>>

(* lahar_builder_allocator_set with a complete allocator.                  *)
AllocatorSet ==
    /\ Running("init") /\ pc = Idle
    /\ gpu_allocator' = TRUE
    /\ last' = Call("allocator_set", "none", ERR_SUCCESS, {})
    /\ UNCHANGED <<status, windows, vk, gen, faults, pc, env>>

(* Line 2772: lahar_window_get_size writes the window's size of the       *)
(* moment into width and height; nothing writes them again.  They are     *)
(* read for the extra attachments only (lines 2502, 3643): the model does *)
(* not keep them for a window that has none.                               *)
register_size(ws, size) ==
    IF ws.attachment_count > 1 THEN [ws EXCEPT !.width = size[1], !.height = size[2]] ELSE ws

(* lahar_builder_window_register_ex.                                       *)
Register(window, conf, size_ok) ==
    /\ Running("init") /\ pc = Idle
    /\ lahar_window_state(windows, window) = 0     \* a window is registered once
    /\ LET arg == <<conf.attachment_count, conf.desired_swap_size, conf.max_in_flight>>
       IN  IF conf.attachment_count = 0
           THEN /\ windows' = windows
                /\ last' = CallArg("register", window, arg, ERR_ILLEGAL_PARAMS, {})
           ELSE \/ /\ Len(windows) = 0      \* window_count >= window_cap: the array grows
                   /\ windows' = windows     \* and lahar_vec_expand fails
                   /\ last' = CallArg("register", window, arg, ERR_ALLOC_FAILED, {})
                \/ IF ~size_ok
                   THEN /\ windows' = Append(windows, ZeroWindowState(window))
                        /\ last' = CallArg("register", window, arg, ERR_DEPENDENCY_FAILED, {})
                   ELSE /\ windows' = Append(windows,
                                        register_size(RegisteredWindowState(window, conf),
                                                      env.window_size))
                        /\ last' = CallArg("register", window, arg, ERR_SUCCESS, {})
    /\ UNCHANGED <<status, gpu_allocator, vk, gen, faults, pc, env>>

----------------------------------------------------------------------------
(* __lahar_build_swapchain for one window.  inp.n is the image count the  *)
(* new swapchain reports, inp.fail the call that fails ("none": no call   *)
(* fails), inp.at the image index at which a per-image call fails.        *)
(* The result is the window state, the driver, the generation counter and *)
(* the error code; a zeroed window state (attachment_configs == NULL) is  *)
(* dereferenced at color_conf->usage.                                      *)

SwapFails == {"caps", "format", "size", "mode", "swapchain", "view", "alloc_image", "attachment_view"}
SyncFails == {"semaphore_a", "semaphore_r", "fence"}
(* A failing chooser or size callback returns its own non-zero code.      *)
PreCreateErr(fail) == IF fail = "caps" THEN ERR_VK_ERR ELSE ERR_DEPENDENCY_FAILED

(* Lines 3553-3565 and 2415-2427: one dimension of the extent.            *)
clamp_extent(v, lo, hi) == IF v > hi THEN hi ELSE IF v < lo THEN lo ELSE v

clamp_image_count_maxonly(desired_img_count, caps) ==    \* seeded fault: the minimum is not looked at
    IF caps.maxImageCount > 0 /\ desired_img_count > caps.maxImageCount THEN caps.maxImageCount
    ELSE desired_img_count

(* Lines 3571-3578 and 2433-2440: image_count.                            *)
clamp_image_count(desired_img_count, caps) ==
    IF caps.maxImageCount > 0 /\ desired_img_count > caps.maxImageCount THEN caps.maxImageCount
    ELSE IF caps.minImageCount > 0 /\ desired_img_count < caps.minImageCount THEN caps.minImageCount
    ELSE desired_img_count

(* The create_info handed to vkCreateSwapchainKHR for this window state   *)
(* (desired_img_count already normalised), as far as the reported         *)
(* capabilities and the window's size determine it.                        *)
swapchain_create_info(ws, caps, size) ==
    [ws.create_info EXCEPT
        !.imageExtent = <<clamp_extent(size[1], caps.minImageExtent[1], caps.maxImageExtent[1]),
                          clamp_extent(size[2], caps.minImageExtent[2], caps.maxImageExtent[2])>>,
        !.minImageCount = clamp_image_count(ws.desired_img_count, caps)]

(* The color attachment's instances once `made` views of generation g     *)
(* exist: lines 3600-3628 and 2458-2487.                                   *)
ColorViews_keep_layout(old, g, made) ==    \* seeded fault: the recorded layout is not reset
    [i \in DOMAIN old |->
        IF i < made
        THEN [image |-> ImageHandle(g, 0, i), view |-> ViewHandle(g, 0, i), layout |-> old[i].layout]
        ELSE old[i]]

ColorViews(old, g, made) ==
    [i \in DOMAIN old |->
        IF i < made
        THEN [image |-> ImageHandle(g, 0, i), view |-> ViewHandle(g, 0, i), layout |-> LAYOUT_UNDEFINED]
        ELSE old[i]]

(* An extra attachment's instances: `made` complete ones, and with        *)
(* half = TRUE one more whose image was allocated and whose view failed.  *)
ExtraViews(old, g, a, made, half, keep_layout) ==
    [i \in DOMAIN old |->
        IF i < made
        THEN [image |-> ImageHandle(g, a, i), view |-> ViewHandle(g, a, i),
              layout |-> IF keep_layout THEN old[i].layout ELSE LAYOUT_UNDEFINED]
        ELSE IF i = made /\ half
        THEN [old[i] EXCEPT !.image = ImageHandle(g, a, i)]
        ELSE old[i]]

(* Lines 3643-3644 and 2502-2503: the template of every extra attachment  *)
(* the loop reaches (all of them when reached_all, else the first only)   *)
(* gets the window state's width and height.                               *)
attachment_extents(ws, reached_all) ==
    [a \in DOMAIN ws.img_info_extent |->
        IF a > 0 /\ (a = 1 \/ reached_all) THEN <<ws.width, ws.height>> ELSE ws.img_info_extent[a]]

ExtraLive(g, a, made, half) ==
    {ViewHandle(g, a, i) : i \in 0..(made - 1)}
        \cup {ImageHandle(g, a, i) : i \in 0..(IF half THEN made ELSE made - 1)}

build_swapchain_window(ws, v, g, alloc, inp) ==
    LET norm == [ws EXCEPT !.desired_img_count = IF @ = 0 THEN 2 ELSE @]
        n == inp.n
        g1 == g + 1
        made == IF inp.fail = "view" THEN inp.at ELSE n
        fresh == [a \in 0..(ws.attachment_count - 1) |-> [i \in 0..(n - 1) |-> ZeroAttachment]]
        created == [norm EXCEPT !.swapchain = SwapHandle(g1), !.swap_size = n,
                                !.create_info = swapchain_create_info(norm, env.surface_caps, env.window_size),
                                !.attachments = [fresh EXCEPT ![0] = ColorViews(fresh[0], g1, made)]]
        v1 == [v EXCEPT !.live = @ \cup {SwapHandle(g1)} \cup {ViewHandle(g1, 0, i) : i \in 0..(made - 1)}]
        emade == IF inp.fail \in {"alloc_image", "attachment_view"} THEN inp.at ELSE n
        half == inp.fail = "attachment_view"
        extra == [created EXCEPT !.attachments =
                    [a \in DOMAIN @ |-> IF a = 0 THEN @[a]
                                         ELSE IF a = 1 THEN ExtraViews(@[a], g1, a, emade, half, TRUE)
                                         ELSE IF emade = n THEN ExtraViews(@[a], g1, a, n, FALSE, TRUE)
                                         ELSE @[a]],
                                  !.img_info_extent = attachment_extents(created, emade = n)]
        v2 == [v1 EXCEPT !.live = @ \cup UNION {IF a = 1 THEN ExtraLive(g1, a, emade, half)
                                                 ELSE IF emade = n THEN ExtraLive(g1, a, n, FALSE)
                                                 ELSE {} : a \in 1..(ws.attachment_count - 1)}]
    IN  IF ws.attachment_count = 0
        THEN [ws |-> ws, vk |-> Misuse(v, "null_deref"), gen |-> g, err |-> ERR_SUCCESS, crashed |-> TRUE]
        ELSE IF inp.fail \in {"caps", "format", "size", "mode"}
        THEN [ws |-> norm, vk |-> v, gen |-> g, err |-> PreCreateErr(inp.fail), crashed |-> FALSE]
        ELSE IF inp.fail = "swapchain"
        THEN [ws |-> norm, vk |-> v, gen |-> g, err |-> ERR_VK_ERR, crashed |-> FALSE]
        ELSE IF inp.fail = "view"
        THEN [ws |-> created, vk |-> v1, gen |-> g1, err |-> ERR_VK_ERR, crashed |-> FALSE]
        ELSE IF ws.attachment_count > 1 /\ ~alloc
        THEN [ws |-> created, vk |-> v1, gen |-> g1, err |-> ERR_INVALID_CONFIGURATION, crashed |-> FALSE]
        ELSE IF ws.attachment_count > 1 /\ inp.fail = "alloc_image"
        THEN [ws |-> extra, vk |-> v2, gen |-> g1, err |-> ERR_DEPENDENCY_FAILED, crashed |-> FALSE]
        ELSE IF ws.attachment_count > 1 /\ inp.fail = "attachment_view"
        THEN [ws |-> extra, vk |-> v2, gen |-> g1, err |-> ERR_VK_ERR, crashed |-> FALSE]
        ELSE [ws |-> extra, vk |-> v2, gen |-> g1, err |-> ERR_SUCCESS, crashed |-> FALSE]

(* __lahar_build_sync for window number wi: max_in_flight semaphore pairs *)
(* and fences, the fences created signaled.  When a creation fails at     *)
(* slot inp.at the arrays stay malloc'ed with the later entries never     *)
(* written.                                                                *)
SemHandle(kind, wi, s) == <<kind, wi, 0, s>>

build_sync_window_unsignaled(ws, v, wi, inp) ==    \* seeded fault: the fences are created unsignaled
    LET failed == inp.fail \in SyncFails /\ inp.at < ws.max_in_flight
        upto(kind) ==       \* slots whose object of this kind was created
            IF ~failed THEN ws.max_in_flight
            ELSE IF kind = "image_available" THEN (IF inp.fail = "semaphore_a" THEN inp.at ELSE inp.at + 1)
            ELSE IF kind = "render_finished" THEN (IF inp.fail = "fence" THEN inp.at + 1 ELSE inp.at)
            ELSE inp.at
        arr(kind, made) == [s \in Slots(ws) |-> IF s < upto(kind) THEN made ELSE "uninit"]
        handles == UNION {{SemHandle(kind, wi, s) : s \in 0..(upto(kind) - 1)} :
                            kind \in {"image_available", "render_finished", "in_flight"}}
    IN  [ws |-> [ws EXCEPT !.image_available = arr("image_available", "unsignaled"),
                           !.render_finished = arr("render_finished", "unsignaled"),
                           !.in_flight = arr("in_flight", "unsignaled"),
                           !.gpu_work = [s \in Slots(ws) |-> 0]],
         vk |-> [v EXCEPT !.live = @ \cup handles],
         err |-> IF failed THEN ERR_VK_ERR ELSE ERR_SUCCESS]

build_sync_window(ws, v, wi, inp) ==
    LET failed == inp.fail \in SyncFails /\ inp.at < ws.max_in_flight
        upto(kind) ==       \* slots whose object of this kind was created
            IF ~failed THEN ws.max_in_flight
            ELSE IF kind = "image_available" THEN (IF inp.fail = "semaphore_a" THEN inp.at ELSE inp.at + 1)
            ELSE IF kind = "render_finished" THEN (IF inp.fail = "fence" THEN inp.at + 1 ELSE inp.at)
            ELSE inp.at
        arr(kind, made) == [s \in Slots(ws) |-> IF s < upto(kind) THEN made ELSE "uninit"]
        handles == UNION {{SemHandle(kind, wi, s) : s \in 0..(upto(kind) - 1)} :
                            kind \in {"image_available", "render_finished", "in_flight"}}
    IN  [ws |-> [ws EXCEPT !.image_available = arr("image_available", "unsignaled"),
                           !.render_finished = arr("render_finished", "unsignaled"),
                           !.in_flight = arr("in_flight", "signaled"),
                           !.gpu_work = [s \in Slots(ws) |-> 0]],
         vk |-> [v EXCEPT !.live = @ \cup handles],
         err |-> IF failed THEN ERR_VK_ERR ELSE ERR_SUCCESS]

BuildInputs ==
    {inp \in [n : ImgCounts, fail : {"none"} \cup SwapFails \cup SyncFails, at : 0..(MaxImages - 1)] :
        /\ inp.fail \in {"view", "alloc_image", "attachment_view"} => inp.at < inp.n
        /\ inp.fail \notin {"view", "alloc_image", "attachment_view"} \cup SyncFails => inp.at = 0}

(* lahar_deinit on one window state: what it hands to the driver.  The   *)
(* three sync arrays are destroyed over all max_in_flight entries when    *)
(* the array pointer is set; the color views and the extra attachments    *)
(* over swap_size entries; the swapchain when the field is not NULL.      *)
deinit_window(ws, v, wi, alloc) ==
    LET syncs(kind, arr) == {SemHandle(kind, wi, s) : s \in {t \in DOMAIN arr : arr[t] # "uninit"}}
        uninit == \E s \in DOMAIN ws.in_flight :
                    "uninit" \in {ws.image_available[s], ws.render_finished[s], ws.in_flight[s]}
        imgs(a) == {i \in DOMAIN ws.attachments[a] : i < ws.swap_size}
        vu == IF uninit THEN Misuse(v, "destroy_uninit") ELSE v
        v0 == IF ws.attachment_count > 0 /\ ws.swap_size > Len2(ws.attachments[0])
              THEN Misuse(vu, "oob_read") ELSE vu
        v1 == DestroyAll(v0, syncs("image_available", ws.image_available)
                                \cup syncs("render_finished", ws.render_finished)
                                \cup syncs("in_flight", ws.in_flight))
        v2 == DestroyAll(v1, UNION {{ws.attachments[a][i].view : i \in imgs(a)} :
                                        a \in DOMAIN ws.attachments} \ {NullHandle})
        v3 == IF alloc
              THEN DestroyAll(v2, UNION {{ws.attachments[a][i].image : i \in imgs(a)} :
                                        a \in DOMAIN ws.attachments \ {0}} \ {NullHandle})
              ELSE v2
        v4 == IF ws.swapchain # NullHandle THEN DestroyAll(v3, {ws.swapchain}) ELSE v3
        v5 == IF ws.surface # NullHandle THEN DestroyAll(v4, {ws.surface}) ELSE v4
    IN  IF ws.attachment_count = 0
        THEN Misuse(v1, "null_deref")       \* state->attachments[0] with attachments == NULL
        ELSE v5

RECURSIVE deinit_windows(_, _, _, _)
deinit_windows(wins, v, wi, alloc) ==
    IF wi > Len(wins) THEN v
    ELSE deinit_windows(wins, deinit_window(wins[wi], v, wi, alloc), wi + 1, alloc)

(* The build stages over all windows, in order, stopping at the first     *)
(* error: __lahar_build_swapchain, then __lahar_build_sync.               *)
RECURSIVE build_swapchain(_, _, _, _, _, _)
build_swapchain(wins, v, g, alloc, inps, wi) ==
    IF wi > Len(wins)
    THEN [windows |-> wins, vk |-> v, gen |-> g, err |-> ERR_SUCCESS, crashed |-> FALSE]
    ELSE LET r == build_swapchain_window(wins[wi], v, g, alloc, inps[wi])
             wins1 == [wins EXCEPT ![wi] = r.ws]
         IN  IF r.crashed \/ r.err # ERR_SUCCESS
             THEN [windows |-> wins1, vk |-> r.vk, gen |-> r.gen, err |-> r.err, crashed |-> r.crashed]
             ELSE build_swapchain(wins1, r.vk, r.gen, alloc, inps, wi + 1)

RECURSIVE build_sync(_, _, _, _)
build_sync(wins, v, inps, wi) ==
    IF wi > Len(wins)
    THEN [windows |-> wins, vk |-> v, err |-> ERR_SUCCESS]
    ELSE LET r == build_sync_window(wins[wi], v, wi, inps[wi])
             wins1 == [wins EXCEPT ![wi] = r.ws]
         IN  IF r.err # ERR_SUCCESS
             THEN [windows |-> wins1, vk |-> r.vk, err |-> r.err]
             ELSE build_sync(wins1, r.vk, inps, wi + 1)

BuildFaults(inps) == Cardinality({wi \in DOMAIN inps : inps[wi].fail # "none"})

(* The calls that can fail in the stages before the swapchain stage:      *)
(* vkEnumerateInstanceExtensionProperties, a required extension missing,  *)
(* vkEnumerateInstanceLayerProperties, vkCreateInstance,                  *)
(* vkEnumerateInstanceVersion, vkCreateDebugUtilsMessengerEXT,            *)
(* lahar_window_surface_create (of window `at`),                          *)
(* vkEnumeratePhysicalDevices, vkCreateDevice.                            *)
EarlyFails ==
    {"ext_enumerate", "ext_missing", "layers", "instance", "version", "messenger",
     "surface", "enumerate_devices", "device"}

NoEarlyFail == [fail |-> "none", at |-> 1]

EarlyInputs(nwin) ==
    {NoEarlyFail}
        \cup {[fail |-> f, at |-> 1] : f \in EarlyFails \ {"surface"}}
        \cup {[fail |-> "surface", at |-> k] : k \in 1..nwin}

(* __lahar_build_early_surface: a surface per window, stopping at the     *)
(* window whose surface cannot be created.                                 *)
build_early_surface(wins, v, early) ==
    LET n == IF early.fail = "surface" THEN early.at - 1 ELSE Len(wins)
    IN  [windows |-> [k \in 1..Len(wins) |->
                        IF k <= n THEN [wins[k] EXCEPT !.surface = SurfaceHandle(k)] ELSE wins[k]],
         vk |-> [v EXCEPT !.live = @ \cup {SurfaceHandle(k) : k \in 1..n}],
         err |-> IF early.fail = "surface" THEN ERR_DEPENDENCY_FAILED ELSE ERR_SUCCESS]

(* The stages of lahar_build before the swapchain stage, with at least    *)
(* one window registered: __lahar_build_inst_extensions,                  *)
(* __lahar_build_instance (validation layers requested, as src/main.c     *)
(* does), __lahar_build_early_surface, __lahar_build_physdev,             *)
(* __lahar_build_device.  The result is the state at the first error, or  *)
(* after the device stage.  A failing vkEnumerateInstanceVersion and a    *)
(* failing vkCreateDevice `goto end` with err still LAHAR_ERR_SUCCESS.    *)
(* scopes counts the stages entered that checkpoint the scratch arena     *)
(* (the surface stage does not).                                           *)
build_early(e, wins, v, early) ==
    LET reported == IF early.fail = "ext_missing" THEN {} ELSE e.instance_extensions
        list == temp_extensions(e)
        inst == [e EXCEPT !.instance = InstanceHandle, !.instance_create_info = list]
        vi == [v EXCEPT !.live = @ \cup {InstanceHandle}]
        nomsg == early.fail = "version" \/ ~e.wantvalidation
        msg == IF nomsg THEN inst ELSE [inst EXCEPT !.debug_messenger = MessengerHandle]
        vm == IF nomsg THEN vi ELSE [vi EXCEPT !.live = @ \cup {MessengerHandle}]
        sf == build_early_surface(wins, vm, early)
        pd == build_physdev(e.devices, sf.windows, e.score_func, early.fail # "enumerate_devices")
        phys == [msg EXCEPT !.physdev_info = pd.physdev_info,
                            !.device_create_info = device_create_info(pd.physdev_info)]
        dev == IF early.fail = "device" THEN phys
               ELSE [phys EXCEPT !.device = DeviceHandle, !.dev_loaded = TRUE]
        vd == IF early.fail = "device" THEN sf.vk
              ELSE [sf.vk EXCEPT !.live = @ \cup {DeviceHandle}]
    IN  IF early.fail = "ext_enumerate"
        THEN [env |-> e, windows |-> wins, vk |-> v, err |-> ERR_VK_ERR, calls |-> {}, scopes |-> 1]
        ELSE IF \E i \in 1..Len(list) : list[i] \notin reported
        THEN [env |-> e, windows |-> wins, vk |-> v, err |-> ERR_MISSING_EXTENSION, calls |-> {},
              scopes |-> 1]
        ELSE IF early.fail = "layers"
        THEN [env |-> e, windows |-> wins, vk |-> v, err |-> ERR_VK_ERR, calls |-> {}, scopes |-> 2]
        ELSE IF early.fail = "instance"
        THEN [env |-> e, windows |-> wins, vk |-> v, err |-> ERR_VK_ERR,
              calls |-> {"vkCreateInstance"}, scopes |-> 2]
        ELSE IF early.fail = "messenger" /\ e.wantvalidation
        THEN [env |-> inst, windows |-> wins, vk |-> vi, err |-> ERR_VK_ERR,
              calls |-> {"vkCreateInstance"}, scopes |-> 2]
        ELSE IF sf.err # ERR_SUCCESS
        THEN [env |-> msg, windows |-> sf.windows, vk |-> sf.vk, err |-> sf.err,
              calls |-> {"vkCreateInstance"}, scopes |-> 2]
        ELSE IF pd.err # ERR_SUCCESS
        THEN [env |-> msg, windows |-> sf.windows, vk |-> sf.vk, err |-> pd.err,
              calls |-> {"vkCreateInstance"}, scopes |-> 3]
        ELSE [env |-> dev, windows |-> sf.windows, vk |-> vd, err |-> ERR_SUCCESS,
              calls |-> {"vkCreateInstance", "vkCreateDevice"}, scopes |-> 4]

(* lahar_deinit's body: the windows, then the device, the debug           *)
(* messenger and the instance.                                             *)
deinit_env_windows_only(e, wins, v, alloc) ==    \* seeded fault: the device and the instance stay
    deinit_windows(wins, v, 1, alloc)

deinit_env(e, wins, v, alloc) ==
    DestroyAll(deinit_windows(wins, v, 1, alloc),
               {e.device, e.debug_messenger, e.instance} \ {NullHandle})

(* lahar_build: the stages in order; a failing stage runs lahar_deinit,   *)
(* which ends with memset(lahar, 0).  With no window registered the       *)
(* extension stage reads windows[0] of a NULL array.  After a failed      *)
(* vkCreateDevice the device-level entry points are not loaded, and the   *)
(* swapchain stage calls vkCreateSwapchainKHR through a NULL pointer      *)
(* unless an earlier call of the stage fails.  In the record of the call, *)
(* "call_failed": one of the calls made by the build failed;              *)
(* "lahar_deinit": the build ran lahar_deinit; "vkCreateInstance",        *)
(* "vkCreateDevice": the build called them.                               *)
build_crash(v, failed) ==
    /\ status' = "crashed"
    /\ vk' = v
    /\ last' = Call("build", "none", "NO_RETURN", failed)
    /\ UNCHANGED <<gpu_allocator, windows, gen, env>>

(* `fail:` of lahar_build: lahar_deinit, then the error is returned.      *)
build_fail_deinit(vd, g, err, failed, scopes) ==
    IF "null_deref" \in vd.misuse
    THEN /\ status' = "crashed"
         /\ vk' = vd
         /\ last' = Call("build", "none", "NO_RETURN", failed \cup {"lahar_deinit"})
         /\ UNCHANGED <<gpu_allocator, windows, gen, env>>
    ELSE /\ status' = "deinit"
         /\ vk' = vd
         /\ windows' = <<>> /\ gpu_allocator' = FALSE /\ gen' = g
         /\ env' = [ZeroEnv(env) EXCEPT !.arena = temp_scopes(env.arena, scopes)]
         /\ last' = Call("build", "none", err, failed \cup {"lahar_deinit"})

build_fail(e, wins, v, g, err, failed, scopes) ==
    build_fail_deinit(deinit_env(e, wins, v, gpu_allocator), g, err, failed, scopes)

(* lahar_build after the sync stage (sy), the last one.                    *)
build_after_sync(ea, sw, sy, failed) ==
    IF sy.err # ERR_SUCCESS THEN build_fail(ea.env, sy.windows, sy.vk, sw.gen, sy.err, failed, ea.scopes + 1)
    ELSE /\ status' = "built"
         /\ vk' = sy.vk
         /\ windows' = [k \in 1..Len(sy.windows) |->
                            choose_surface(sy.windows[k], ea.env.physdev_info)]
         /\ gen' = sw.gen
         /\ env' = [ea.env EXCEPT !.arena = temp_scopes(env.arena, ea.scopes + 1)]
         /\ last' = Call("build", "none", ERR_SUCCESS, failed)
         /\ UNCHANGED gpu_allocator

(* lahar_build after the swapchain stage (sw).                             *)
build_after_swapchain(ea, sw, inps, failed) ==
    IF sw.crashed THEN build_crash(sw.vk, failed)
    ELSE IF sw.err # ERR_SUCCESS THEN build_fail(ea.env, sw.windows, sw.vk, sw.gen, sw.err, failed, ea.scopes + 1)
    ELSE build_after_sync(ea, sw, build_sync(sw.windows, sw.vk, inps, 1), failed)

(* lahar_build after the stages before the swapchain stage (ea).           *)
build_after_early(ea, inps, failed) ==
    IF ea.err # ERR_SUCCESS
    THEN build_fail(ea.env, ea.windows, ea.vk, gen, ea.err, failed \cup ea.calls, ea.scopes)
    ELSE IF ~ea.env.dev_loaded /\ inps[1].fail \notin {"caps", "format", "size", "mode"}
    THEN build_crash(Misuse(ea.vk, "null_fn_call"), failed \cup ea.calls)
    ELSE build_after_swapchain(ea, build_swapchain(ea.windows, ea.vk, gen, gpu_allocator, inps, 1),
                               inps, failed \cup ea.calls)

lahar_build(early, inps) ==
    /\ Running("init") /\ pc = Idle
    /\ gen + Len(windows) <= MaxGen
    /\ faults + Fault(early.fail) + BuildFaults(inps) <= MaxFaults
    /\ IF Len(windows) = 0
       THEN build_crash(Misuse(vk, "null_deref"),
                        IF Fault(early.fail) + BuildFaults(inps) > 0 THEN {"call_failed"} ELSE {})
       ELSE build_after_early(build_early(env, windows, vk, early), inps,
                              IF Fault(early.fail) + BuildFaults(inps) > 0 THEN {"call_failed"} ELSE {})
    /\ faults' = faults + Fault(early.fail) + BuildFaults(inps)
    /\ UNCHANGED pc

(* lahar_deinit called by the application.                                 *)
lahar_deinit ==
    /\ status \in {"init", "built"} /\ vk.misuse = {} /\ pc = Idle
    /\ LET vd == deinit_env(env, windows, vk, gpu_allocator)
       IN  IF "null_deref" \in vd.misuse
           THEN /\ status' = "crashed"
                /\ vk' = vd
                /\ last' = Call("deinit", "none", "NO_RETURN", {})
                /\ UNCHANGED <<gpu_allocator, windows, env>>
           ELSE /\ status' = "deinit"
                /\ vk' = vd
                /\ windows' = <<>> /\ gpu_allocator' = FALSE
                /\ env' = ZeroEnv(env)
                /\ last' = Call("deinit", "none", ERR_SUCCESS, {})
    /\ UNCHANGED <<gen, faults, pc>>

----------------------------------------------------------------------------
(* __lahar_default_resizer.  inp.fail is the call that fails, inp.n the   *)
(* image count of the new swapchain, inp.at the image index at which a    *)
(* per-image call fails, inp.assert what a failing LAHAR_ASSERT does      *)
(* (SIGTRAP ends the process, or the run goes on: a debugger, NDEBUG),    *)
(* inp.oob what a write past the end of the attachment arrays does.       *)
(* `end` tells how the call ends: "return", "hang" (the fence wait never  *)
(* returns), "trap", "crash".                                              *)

ResizeFails == {"none", "wait"} \cup SwapFails

(* The resizer's use of the scratch arena: the checkpoint at line 2333,   *)
(* swap_imgs and swap_views (lines 2453-2454) when the call gets that     *)
(* far, the pop at `end:` (line 2535).                                     *)
resizer_arena(ar, inp, end) ==
    temp_scope(ar, IF inp.fail \in {"wait", "caps", "format", "size", "mode"} THEN 0 ELSE 2,
               end = "return")
AssertOutcomes == {"trap", "continue"}
LinuxAssert == {"trap"}     \* lines 1900-1908: raise(SIGTRAP), no handler installed
OobOutcomes == {"crash", "extend"}

(* lahar_window_wait_inactive: waits for all max_in_flight fences.        *)
lahar_window_wait_inactive_nowait(ws) == ws     \* seeded fault: the wait is left out

lahar_window_wait_inactive(ws) ==
    [ws EXCEPT !.in_flight = AfterWait(@, Slots(ws)),
               !.gpu_work = WorkAfterWait(@, ws.in_flight, Slots(ws))]

(* Lines 2357-2381: the old views, extra images and swapchain go to the   *)
(* driver; the fields keep the stale handles.  Destroying while submitted *)
(* work of the window is still executing is an invalid use.               *)
resizer_destroy_old(ws, v) ==
    LET idx(a) == {i \in DOMAIN ws.attachments[a] : i < ws.swap_size}
        views == UNION {{ws.attachments[a][i].view : i \in idx(a)} : a \in DOMAIN ws.attachments}
        images == UNION {{ws.attachments[a][i].image : i \in idx(a)} : a \in DOMAIN ws.attachments \ {0}}
        swap == IF ws.swapchain = NullHandle THEN {} ELSE {ws.swapchain}
        vb == IF Pending(ws) # {} THEN Misuse(v, "destroy_busy") ELSE v
        v0 == IF ws.swap_size > Len2(ws.attachments[0]) THEN Misuse(vb, "oob_read") ELSE vb
    IN  DestroyAll(DestroyAll(DestroyAll(v0, views \ {NullHandle}), images \ {NullHandle}), swap)

(* The arrays as a write at indices below n sees them: the allocation of  *)
(* the first build, or (past its end, when the run goes on) whatever      *)
(* memory follows it.                                                      *)
Extended(atts, n) ==
    [a \in DOMAIN atts |->
        [i \in 0..(IF n > Len2(atts[a]) THEN n - 1 ELSE Len2(atts[a]) - 1) |->
            IF i \in DOMAIN atts[a] THEN atts[a][i] ELSE ZeroAttachment]]

default_resizer(ws, v, g, alloc, inp) ==
    LET R(w, d, gg, e, how) == [ws |-> w, vk |-> d, gen |-> gg, err |-> e, end |-> how]
        waited == lahar_window_wait_inactive(ws)
        v1 == resizer_destroy_old(waited, v)
        norm == [waited EXCEPT !.desired_img_count = IF @ = 0 THEN 2 ELSE @]
        n == inp.n
        g1 == g + 1
        cap == Len2(ws.attachments[0])
        made == IF inp.fail = "view" THEN inp.at ELSE n
        sized == [norm EXCEPT !.swapchain = SwapHandle(g1), !.swap_size = n,
                              !.create_info = swapchain_create_info(norm, env.surface_caps, env.window_size)]
        vs == [v1 EXCEPT !.live = @ \cup {SwapHandle(g1)}]
        room == Extended(sized.attachments, made)
        created == [sized EXCEPT !.attachments = [room EXCEPT ![0] = ColorViews(room[0], g1, made)]]
        v2 == [vs EXCEPT !.live = @ \cup {ViewHandle(g1, 0, i) : i \in 0..(made - 1)}]
        emade == IF inp.fail \in {"alloc_image", "attachment_view"} THEN inp.at ELSE n
        half == inp.fail = "attachment_view"
        extra == [created EXCEPT !.attachments =
                    [a \in DOMAIN @ |-> IF a = 0 THEN @[a]
                                         ELSE IF a = 1 THEN ExtraViews(@[a], g1, a, emade, half, FALSE)
                                         ELSE IF emade = n THEN ExtraViews(@[a], g1, a, n, FALSE, FALSE)
                                         ELSE @[a]],
                                  !.img_info_extent = attachment_extents(created, emade = n)]
        v3 == [v2 EXCEPT !.live = @ \cup UNION {IF a = 1 THEN ExtraLive(g1, a, emade, half)
                                                 ELSE IF emade = n THEN ExtraLive(g1, a, n, FALSE)
                                                 ELSE {} : a \in 1..(ws.attachment_count - 1)}]
        vo == IF n > cap THEN Misuse(v3, "oob_write") ELSE v3
        v2o == IF n > cap /\ made > cap THEN Misuse(v2, "oob_write") ELSE v2
    IN  IF WaitBlocksForever(ws.in_flight, Slots(ws))
        THEN R(ws, v, g, ERR_SUCCESS, "hang")
        ELSE IF inp.fail = "wait"
        THEN R(ws, v, g, ERR_VK_ERR, "return")
        ELSE IF ws.attachment_count > 1 /\ ~alloc
        THEN R(waited, v, g, ERR_INVALID_STATE, "return")
        ELSE IF inp.fail = "caps" \/ inp.fail = "format"
        THEN R(norm, v1, g, ERR_VK_ERR, "return")
        ELSE IF inp.fail = "size" \/ inp.fail = "mode"
        THEN R(norm, v1, g, PreCreateErr(inp.fail), "return")
        ELSE IF inp.fail = "swapchain"
        THEN R(norm, v1, g, ERR_SUCCESS, "return")      \* line 2445: err is still 0
        ELSE IF n # ws.swap_size /\ inp.assert = "trap"
        THEN R(sized, vs, g1, ERR_SUCCESS, "trap")
        ELSE IF n > cap /\ inp.oob = "crash" /\ (inp.fail # "view" \/ made > cap)
        THEN R(sized, Misuse(vs, "oob_write"), g1, ERR_SUCCESS, "crash")
        ELSE IF inp.fail = "view"
        THEN R(created, v2o, g1, ERR_VK_ERR, "return")
        ELSE IF ws.attachment_count > 1 /\ inp.fail = "alloc_image"
        THEN R(extra, vo, g1, ERR_DEPENDENCY_FAILED, "return")
        ELSE IF ws.attachment_count > 1 /\ inp.fail = "attachment_view"
        THEN R(extra, vo, g1, ERR_VK_ERR, "return")
        ELSE R(extra, vo, g1, ERR_SUCCESS, "return")

(* The inputs a recreation of this window can read: the image count and  *)
(* what follows it only once the swapchain was created, a per-image       *)
(* failure only at an image that exists, the assertion's and the          *)
(* overflow's outcome only when there is one.  A failing call is drawn    *)
(* only while the fault budget lasts.                                      *)
ResizeInputsFor(ws, budget, outcomes) ==
    LET early == {"wait", "caps", "format", "size", "mode", "swapchain"}
        perimg == {"view"} \cup (IF ws.attachment_count > 1 THEN {"alloc_image", "attachment_view"} ELSE {})
        fails == IF budget THEN {"none"} \cup early \cup perimg ELSE {"none"}
        ns(f) == IF f \in early THEN {1} ELSE ImgCounts
        ats(f, n) == IF f \in perimg THEN 0..(n - 1) ELSE {0}
        asserts(f, n) == IF f \notin early /\ n # ws.swap_size THEN outcomes ELSE {"trap"}
        oobs(f, n) == IF f \notin early /\ n > Len2(ws.attachments[0]) THEN OobOutcomes ELSE {"crash"}
    IN  UNION {UNION {UNION {
            {[n |-> n, fail |-> f, at |-> a, assert |-> x, oob |-> o] :
                x \in asserts(f, n), o \in oobs(f, n)} :
            a \in ats(f, n)} : n \in ns(f)} : f \in fails}

(* What a recreation did, for the record of the call: the wait, whether   *)
(* submitted work was still executing when it began, whether a call of    *)
(* the recreation failed.                                                  *)
ResizeCalls(ws, inp) ==
    {"vkWaitForFences"}
        \cup (IF Pending(ws) # {} THEN {"gpu_was_busy"} ELSE {})
        \cup (IF inp.fail # "none" THEN {"recreate_failed"} ELSE {})

StatusAfter(how) ==
    IF how = "hang" THEN "hung" ELSE IF how = "trap" THEN "trapped"
    ELSE IF how = "crash" THEN "crashed" ELSE "built"

(* lahar_window_swapchain_resize (no resize_callback installed).          *)
lahar_window_swapchain_resize(window, outcomes) ==
    /\ Running("built") /\ pc = Idle
    /\ gen < MaxGen
    /\ LET wi == lahar_window_state(windows, window)
       IN  IF wi = 0
           THEN /\ last' = Call("resize", window, ERR_INVALID_WINDOW, {})
                /\ UNCHANGED <<status, windows, vk, gen, faults, env>>
           ELSE \E inp \in ResizeInputsFor(windows[wi], faults < MaxFaults, outcomes) :
                LET r == default_resizer(windows[wi], vk, gen, gpu_allocator, inp)
                IN  /\ faults' = faults + Fault(inp.fail)
                    /\ windows' = [windows EXCEPT ![wi] = r.ws]
                    /\ vk' = r.vk
                    /\ gen' = r.gen
                    /\ status' = StatusAfter(r.end)
                    /\ env' = [env EXCEPT !.arena = resizer_arena(@, inp, r.end)]
                    /\ last' = Call("resize", window,
                                    IF r.end = "return" THEN r.err ELSE "NO_RETURN",
                                    ResizeCalls(windows[wi], inp))
    /\ UNCHANGED <<gpu_allocator, pc>>

----------------------------------------------------------------------------
(* The frame state machine.                                                *)

(* vkAcquireNextImageKHR hands out an image of the swapchain.             *)
AcquireInputs(ws) == 0..(ws.swap_size - 1)

(* An acquire that hands out an image signals the flight slot's           *)
(* image-available semaphore.                                              *)
Acquired(ws, img) ==
    [ws EXCEPT !.frame_index = img, !.image_available[ws.flight_index] = "signaled"]

(* The window state after an acquire that reports the swapchain stale:   *)
(* VK_SUBOPTIMAL_KHR has acquired an image, VK_ERROR_OUT_OF_DATE_KHR has  *)
(* not.                                                                    *)
StaleAcquire(ws) == {ws} \cup {Acquired(ws, img) : img \in AcquireInputs(ws)}

(* The driver calls of frame_begin up to the acquire.  Handing            *)
(* vkAcquireNextImageKHR a semaphore that is signaled already (no wait    *)
(* has consumed the signal of an earlier acquire) is an invalid use: it   *)
(* is recorded with the call.                                              *)
acquire_calls(ws) ==
    {"vkWaitForFences", "vkAcquireNextImageKHR"}
        \cup (IF ws.image_available[ws.flight_index] = "signaled"
              THEN {"acquire_signaled_semaphore"} ELSE {})

(* lahar_window_frame_begin.  The acquire's result and image and the      *)
(* input of the swapchain recreation, if there is one, are drawn inside.  *)
(* The recursive retry (line 3792) is the same action again, entered with *)
(* pc = <<"frame_begin", window>>; no other call runs in between.         *)
frame_begin_guard_present_only(ws) == ws.frame_phase = PHASE_PRESENT    \* seeded fault: DRAW passes

frame_begin_guard(ws) == ws.frame_phase # PHASE_BEGIN

frame_begin_nowait(ws) == ws    \* seeded fault: the fence wait is left out

frame_begin_wait(ws) ==
    [ws EXCEPT !.in_flight = AfterWait(@, {ws.flight_index}),
               !.gpu_work = WorkAfterWait(@, ws.in_flight, {ws.flight_index})]

frame_begin_enter_skip(ws) ==   \* seeded fault: the phase skips DRAW
    [ws EXCEPT !.in_flight[ws.flight_index] = "unsignaled", !.frame_phase = PHASE_PRESENT]

frame_begin_enter(ws) ==
    [ws EXCEPT !.in_flight[ws.flight_index] = "unsignaled", !.frame_phase = PHASE_DRAW]

lahar_window_frame_begin(window, outcomes) ==
    /\ Running("built")
    /\ pc = Idle \/ pc = <<"frame_begin", window>>
    /\ LET wi == lahar_window_state(windows, window)
           sofar == IF pc = Idle THEN {} ELSE last.calls
           Ret(code, calls) == Call("frame_begin", window, code, sofar \cup calls)
           acq == acquire_calls(windows[wi])
       IN  IF wi = 0
           THEN /\ last' = Ret(ERR_INVALID_WINDOW, {})
                /\ pc' = Idle
                /\ UNCHANGED <<status, windows, vk, gen, faults, env>>
           ELSE IF frame_begin_guard(windows[wi])
           THEN /\ last' = Ret(ERR_INVALID_FRAME_STATE, {})
                /\ pc' = Idle
                /\ UNCHANGED <<status, windows, vk, gen, faults, env>>
           ELSE IF WaitBlocksForever(windows[wi].in_flight, {windows[wi].flight_index})
           THEN /\ status' = "hung"
                /\ last' = Ret("NO_RETURN", {"vkWaitForFences"})
                /\ UNCHANGED <<windows, vk, gen, faults, pc, env>>
           ELSE LET ws == windows[wi]
                    waited == frame_begin_wait(ws)
                    v1 == IF ws.swapchain \in vk.live THEN vk ELSE Misuse(vk, "use_dead_swapchain")
                IN  \/ \E img \in AcquireInputs(ws) :         \* VK_SUCCESS
                        /\ windows' = [windows EXCEPT ![wi] =
                                            frame_begin_enter(Acquired(waited, img))]
                        /\ vk' = v1
                        /\ pc' = Idle
                        /\ last' = Ret(ERR_SUCCESS, acq \cup {"vkResetFences"})
                        /\ UNCHANGED <<status, gen, faults, env>>
                    \/ /\ windows' = [windows EXCEPT ![wi] = waited]    \* any other error
                       /\ vk' = v1
                       /\ pc' = Idle
                       /\ last' = Ret(ERR_VK_ERR, acq)
                       /\ UNCHANGED <<status, gen, faults, env>>
                    \/ \E got \in StaleAcquire(waited) :      \* VK_SUBOPTIMAL_KHR, VK_ERROR_OUT_OF_DATE_KHR
                        IF ~ws.auto_recreate_swap
                        THEN /\ windows' = [windows EXCEPT ![wi] = got]
                             /\ vk' = v1
                             /\ pc' = Idle
                             /\ last' = Ret(ERR_SWAPCHAIN_OUT_OF_DATE, acq)
                             /\ UNCHANGED <<status, gen, faults, env>>
                        ELSE /\ gen < MaxGen
                             /\ \E inp \in ResizeInputsFor(got, faults < MaxFaults, outcomes) :
                                  LET r == default_resizer(got, v1, gen, gpu_allocator, inp)
                                  IN  /\ faults' = faults + Fault(inp.fail)
                                      /\ windows' = [windows EXCEPT ![wi] = r.ws]
                                      /\ vk' = r.vk
                                      /\ gen' = r.gen
                                      /\ status' = StatusAfter(r.end)
                                      /\ env' = [env EXCEPT !.arena = resizer_arena(@, inp, r.end)]
                                      /\ pc' = IF r.end # "return" THEN pc
                                               ELSE IF r.err # ERR_SUCCESS THEN Idle
                                               ELSE <<"frame_begin", window>>
                                      /\ last' = Ret(IF r.end # "return" THEN "NO_RETURN"
                                                     ELSE IF r.err # ERR_SUCCESS THEN r.err
                                                     ELSE "RETRY",
                                                     acq \cup {"resize"} \cup ResizeCalls(got, inp))
    /\ UNCHANGED gpu_allocator

(* lahar_window_submit_all / lahar_window_submit: cmd_count command       *)
(* buffers; ok tells whether vkQueueSubmit succeeds (VK_ERROR stands for  *)
(* any of its error codes).                                                *)
submit_guard_begin_only(ws) == ws.frame_phase = PHASE_BEGIN    \* seeded fault: PRESENT passes

submit_guard(ws) == ws.frame_phase # PHASE_DRAW

lahar_window_submit_all(window, cmd_count, ok) ==
    /\ Running("built") /\ pc = Idle
    /\ LET wi == lahar_window_state(windows, window)
       IN  IF cmd_count = 0
           THEN /\ last' = CallArg("submit", window, <<cmd_count>>, ERR_ILLEGAL_PARAMS, {})
                /\ UNCHANGED <<windows, vk>>
           ELSE IF wi = 0
           THEN /\ last' = CallArg("submit", window, <<cmd_count>>, ERR_INVALID_WINDOW, {})
                /\ UNCHANGED <<windows, vk>>
           ELSE LET ws == windows[wi]
                    fence == ws.in_flight[ws.flight_index]
                IN  IF submit_guard(ws)
                    THEN /\ last' = CallArg("submit", window, <<cmd_count>>, ERR_INVALID_FRAME_STATE, {})
                         /\ UNCHANGED <<windows, vk>>
                    ELSE IF ~ok
                    THEN /\ last' = queue_call(CallArg("submit", window, <<cmd_count>>, ERR_VK_ERR,
                                                         {"vkQueueSubmit"}), VK_ERROR)
                         /\ UNCHANGED <<windows, vk>>
                    ELSE /\ windows' = [windows EXCEPT ![wi] =
                                [ws EXCEPT !.in_flight[ws.flight_index] = "pending",
                                           !.gpu_work[ws.flight_index] = @ + 1,
                                           !.image_available[ws.flight_index] = "unsignaled",
                                           !.frame_phase = PHASE_PRESENT]]
                         /\ vk' = IF fence = "unsignaled" THEN vk ELSE Misuse(vk, "submit_fence_in_use")
                         /\ last' = queue_call(CallArg("submit", window, <<cmd_count>>, ERR_SUCCESS,
                                                         {"vkQueueSubmit"}), VK_SUCCESS)
    /\ UNCHANGED <<status, gpu_allocator, gen, faults, pc, env>>

(* lahar_window_present; res is what vkQueuePresentKHR returns.           *)
present_advance_nowrap(ws) ==   \* seeded fault: no modulo
    [ws EXCEPT !.flight_index = ws.flight_index + 1,
               !.frame_phase = PHASE_BEGIN]

present_advance(ws) ==
    [ws EXCEPT !.flight_index = (ws.flight_index + 1) % ws.max_in_flight,
               !.frame_phase = PHASE_BEGIN]

(* Lines 3853-3859: the code present returns for the phase before it      *)
(* touches the queue.                                                      *)
present_check_one_code(ws) ==   \* seeded fault: DRAW is reported as BEGIN is
    IF ws.frame_phase = PHASE_PRESENT THEN ERR_SUCCESS ELSE ERR_INVALID_FRAME_STATE

present_check(ws) ==
    IF ws.frame_phase = PHASE_BEGIN THEN ERR_INVALID_FRAME_STATE
    ELSE IF ws.frame_phase = PHASE_DRAW THEN ERR_NO_COMMAND_BUFFER
    ELSE ERR_SUCCESS

lahar_window_present(window, res) ==
    /\ Running("built") /\ pc = Idle
    /\ LET wi == lahar_window_state(windows, window)
       IN  IF wi = 0
           THEN /\ last' = Call("present", window, ERR_INVALID_WINDOW, {})
                /\ UNCHANGED windows
           ELSE LET ws == windows[wi]
                IN  IF present_check(ws) # ERR_SUCCESS
                    THEN /\ last' = Call("present", window, present_check(ws), {})
                         /\ UNCHANGED windows
                    ELSE IF res # VK_SUCCESS
                    THEN /\ last' = queue_call(Call("present", window, ERR_VK_ERR, {"vkQueuePresentKHR"}), res)
                         /\ UNCHANGED windows
                    ELSE /\ windows' = [windows EXCEPT ![wi] = present_advance(ws)]
                         /\ last' = queue_call(Call("present", window, ERR_SUCCESS, {"vkQueuePresentKHR"}), res)
    /\ UNCHANGED <<status, gpu_allocator, vk, gen, faults, pc, env>>

(* lahar_window_attachment_transition with a valid command buffer.  The   *)
(* attachment instance is attachments[attachment_index][frame_index]; a   *)
(* frame_index past the end of the array reads memory that is not the     *)
(* array's (oob tells what that does).                                    *)
lahar_window_attachment_transition_forget(window, attachment_index, layout, oob) ==    \* seeded fault: the new layout is not stored
    /\ Running("built") /\ pc = Idle
    /\ LET wi == lahar_window_state(windows, window)
       IN  IF wi = 0
           THEN /\ oob = "crash"
                /\ last' = CallArg("transition", window, <<attachment_index, layout>>, ERR_INVALID_WINDOW, {})
                /\ UNCHANGED <<windows, vk, status>>
           ELSE LET ws == windows[wi]
                IN  IF attachment_index >= ws.attachment_count
                    THEN /\ oob = "crash"
                         /\ last' = CallArg("transition", window, <<attachment_index, layout>>, ERR_ILLEGAL_PARAMS, {})
                         /\ UNCHANGED <<windows, vk, status>>
                    ELSE IF ws.frame_index \notin DOMAIN ws.attachments[attachment_index]
                    THEN /\ vk' = Misuse(vk, "oob_read")
                         /\ status' = IF oob = "crash" THEN "crashed" ELSE status
                         /\ last' = CallArg("transition", window, <<attachment_index, layout>>,
                                         IF oob = "crash" THEN "NO_RETURN" ELSE ERR_SUCCESS,
                                         {"vkCmdPipelineBarrier"})
                         /\ UNCHANGED windows
                    ELSE IF ws.attachments[attachment_index][ws.frame_index].layout # layout
                    THEN /\ oob = "crash"
                         /\ windows' = windows
                         /\ last' = [CallArg("transition", window, <<attachment_index, layout>>,
                                              ERR_SUCCESS, {"vkCmdPipelineBarrier"})
                                        EXCEPT !.barrier = <<transition_barrier(ws, attachment_index, layout)>>]
                         /\ UNCHANGED <<vk, status>>
                    ELSE /\ oob = "crash"
                         /\ last' = CallArg("transition", window, <<attachment_index, layout>>, ERR_SUCCESS, {})
                         /\ UNCHANGED <<windows, vk, status>>
    /\ UNCHANGED <<gpu_allocator, gen, faults, pc, env>>

lahar_window_attachment_transition(window, attachment_index, layout, oob) ==
    /\ Running("built") /\ pc = Idle
    /\ LET wi == lahar_window_state(windows, window)
       IN  IF wi = 0
           THEN /\ oob = "crash"
                /\ last' = CallArg("transition", window, <<attachment_index, layout>>, ERR_INVALID_WINDOW, {})
                /\ UNCHANGED <<windows, vk, status>>
           ELSE LET ws == windows[wi]
                IN  IF attachment_index >= ws.attachment_count
                    THEN /\ oob = "crash"
                         /\ last' = CallArg("transition", window, <<attachment_index, layout>>, ERR_ILLEGAL_PARAMS, {})
                         /\ UNCHANGED <<windows, vk, status>>
                    ELSE IF ws.frame_index \notin DOMAIN ws.attachments[attachment_index]
                    THEN /\ vk' = Misuse(vk, "oob_read")
                         /\ status' = IF oob = "crash" THEN "crashed" ELSE status
                         /\ last' = CallArg("transition", window, <<attachment_index, layout>>,
                                         IF oob = "crash" THEN "NO_RETURN" ELSE ERR_SUCCESS,
                                         {"vkCmdPipelineBarrier"})
                         /\ UNCHANGED windows
                    ELSE IF ws.attachments[attachment_index][ws.frame_index].layout # layout
                    THEN /\ oob = "crash"
                         /\ windows' = [windows EXCEPT
                                ![wi].attachments[attachment_index][ws.frame_index].layout = layout]
                         /\ last' = [CallArg("transition", window, <<attachment_index, layout>>,
                                              ERR_SUCCESS, {"vkCmdPipelineBarrier"})
                                        EXCEPT !.barrier = <<transition_barrier(ws, attachment_index, layout)>>]
                         /\ UNCHANGED <<vk, status>>
                    ELSE /\ oob = "crash"
                         /\ last' = CallArg("transition", window, <<attachment_index, layout>>, ERR_SUCCESS, {})
                         /\ UNCHANGED <<windows, vk, status>>
    /\ UNCHANGED <<gpu_allocator, gen, faults, pc, env>>

(* The GPU finishes the work submitted for one flight slot and signals    *)
(* the slot's fence.                                                       *)
GpuComplete(wi, s) ==
    /\ Running("built")
    /\ wi \in 1..Len(windows)
    /\ s \in DOMAIN windows[wi].in_flight
    /\ windows[wi].gpu_work[s] > 0
    /\ windows' = [windows EXCEPT ![wi].in_flight[s] = "signaled", ![wi].gpu_work[s] = @ - 1]
    /\ last' = Call("gpu", windows[wi].window, ERR_SUCCESS, {})
    /\ UNCHANGED <<status, gpu_allocator, vk, gen, faults, pc, env>>

(* The calls of one frame and what the GPU does meanwhile.                 *)
FrameOps(outcomes) ==
    \/ \E w \in WindowHandles : lahar_window_swapchain_resize(w, outcomes)
    \/ \E w \in WindowHandles : lahar_window_frame_begin(w, outcomes)
    \/ \E w \in WindowHandles, n \in 0..1, ok \in BOOLEAN : lahar_window_submit_all(w, n, ok)
    \/ \E w \in WindowHandles, res \in VkResults : lahar_window_present(w, res)
    \/ \E wi \in 1..Len(windows), s \in 0..(MaxInFlight - 1) : GpuComplete(wi, s)

(* Spec: windows with the color attachment only (LAHAR_WINPROF_COLOR and  *)
(* one-attachment configurations), the Linux build.                        *)
Next ==
    \/ \E w \in WindowHandles, c \in WindowConfigs(0..1), ok \in BOOLEAN : Register(w, c, ok)
    \/ \E inps \in [1..Len(windows) -> BuildInputs] : lahar_build(NoEarlyFail, inps)
    \/ lahar_deinit
    \/ FrameOps(LinuxAssert)

Spec == Init /\ [][Next]_vars

(* SpecAttach: windows with extra attachments and a gpu allocator; no     *)
(* layout transitions are recorded.                                        *)
NextAttach ==
    \/ AllocatorSet
    \/ \E w \in WindowHandles, c \in WindowConfigs(1..2), ok \in BOOLEAN : Register(w, c, ok)
    \/ \E inps \in [1..Len(windows) -> BuildInputs] : lahar_build(NoEarlyFail, inps)
    \/ lahar_deinit
    \/ FrameOps(LinuxAssert)

SpecAttach == Init /\ [][NextAttach]_vars

(* SpecBuild: building and tearing down with up to two windows of any     *)
(* configuration, a call failing at any stage; no frames.                 *)
BuildDesiredCfgs == {0, 1}
BuildInFlightCfgs == {0, 1}

BuildWindowConfigs ==
    [attachment_count : AttachmentCfgs,
     desired_swap_size : BuildDesiredCfgs,
     max_in_flight : BuildInFlightCfgs,
     no_auto_swap_resize : {FALSE}]

(* The inputs of a build of nwin windows in which no call of the          *)
(* swapchain and sync stages fails, and those in which one call does.     *)
CleanInputs(nwin) ==
    {[k \in 1..nwin |-> [n |-> ns[k], fail |-> "none", at |-> 0]] : ns \in [1..nwin -> ImgCounts]}

OneFaultInputs(nwin) ==
    UNION {{[c EXCEPT ![k] = b] : b \in {x \in BuildInputs : x.n = c[k].n /\ x.fail # "none"}} :
            c \in CleanInputs(nwin), k \in 1..nwin}

NextBuild ==
    \/ AllocatorSet
    \/ \E w \in BuildWindowHandles, c \in BuildWindowConfigs, ok \in BOOLEAN : Register(w, c, ok)
    \/ \E early \in EarlyInputs(Len(windows)), inps \in CleanInputs(Len(windows)) :
            lahar_build(early, inps)
    \/ \E inps \in OneFaultInputs(Len(windows)) : lahar_build(NoEarlyFail, inps)
    \/ lahar_deinit
    \/ \E w \in BuildWindowHandles : lahar_window_swapchain_resize(w, LinuxAssert)

SpecBuild == Init /\ [][NextBuild]_vars

(* SpecPhysdev: the selection of the physical device, on any machine of   *)
(* the catalogue, with windows of src/main.c's configuration and no call  *)
(* failing.                                                                *)
PhysdevWindowConfig ==
    [attachment_count |-> 1, desired_swap_size |-> 0, max_in_flight |-> 0,
     no_auto_swap_resize |-> FALSE]

PhysdevBuildInput == [n |-> MaxImages, fail |-> "none", at |-> 0]

PinnedNames == {"", "b"}

NextPhysdev ==
    \/ \E w \in BuildWindowHandles : Register(w, PhysdevWindowConfig, TRUE)
    \/ \E name \in PinnedNames : DeviceUse(name)
    \/ \E f \in CustomScorers : SetScoring(f)
    \/ lahar_build(NoEarlyFail, [k \in 1..Len(windows) |-> PhysdevBuildInput])

SpecPhysdev == InitPhysdev /\ [][NextPhysdev]_vars

(* SpecTransition: layout transitions on a window with the color          *)
(* attachment and, with an allocator, one more attachment of any of these *)
(* configurations; any layout as the target.                               *)
ExtraAttachmentConfigs ==
    {AttachmentConfig(USAGE_DEPTH_STENCIL, f) :
        f \in {FORMAT_D32_SFLOAT, FORMAT_D16_UNORM, FORMAT_D24_UNORM_S8_UINT,
                FORMAT_D32_SFLOAT_S8_UINT, FORMAT_S8_UINT}}
        \cup {AttachmentConfig(USAGE_COLOR, FORMAT_R8G8B8A8_UNORM)}

TransitionWindowConfigs ==
    {[attachment_count |-> 1 + Len(extra),
      attachments |-> [a \in 0..Len(extra) |->
                        IF a = 0 THEN AttachmentConfig(USAGE_NONE, FORMAT_UNDEFINED) ELSE extra[a]],
      desired_swap_size |-> 0, max_in_flight |-> 0, no_auto_swap_resize |-> FALSE] :
        extra \in {<<>>} \cup {<<x>> : x \in ExtraAttachmentConfigs}}

TransitionBuildInput == [n |-> 1, fail |-> "none", at |-> 0]

NextTransition ==
    \/ AllocatorSet
    \/ \E w \in WindowHandles, c \in TransitionWindowConfigs : Register(w, c, TRUE)
    \/ lahar_build(NoEarlyFail, [k \in 1..Len(windows) |-> TransitionBuildInput])
    \/ \E w \in WindowHandles, a \in AttachmentCfgs, l \in AllLayouts, oob \in OobOutcomes :
            lahar_window_attachment_transition(w, a, l, oob)

SpecTransition == Init /\ [][NextTransition]_vars

(* Extension registration and queries.  alloc_ok: the allocations of the *)
(* call succeed.  A list holds at most MaxExtEntries names here.          *)
MaxExtEntries == 1

lahar_builder_request_validation_layers ==
    /\ Running("init") /\ pc = Idle
    /\ env' = [env EXCEPT !.wantvalidation = TRUE]
    /\ last' = Call("request_validation_layers", "none", ERR_SUCCESS, {})
    /\ UNCHANGED <<status, gpu_allocator, windows, vk, gen, faults, pc>>

lahar_builder_extension_add_required_instance(extension, alloc_ok) ==
    /\ Running("init") /\ pc = Idle
    /\ Len(env.extensions.req_inst_exts) < MaxExtEntries
    /\ extension = NULL_NAME => alloc_ok
    /\ faults + (IF alloc_ok THEN 0 ELSE 1) <= MaxFaults
    /\ IF extension = NULL_NAME
       THEN /\ last' = CallArg("add_required_instance", "none", <<extension>>, ERR_ILLEGAL_PARAMS, {})
            /\ UNCHANGED env
       ELSE IF ~alloc_ok
       THEN /\ last' = CallArg("add_required_instance", "none", <<extension>>, ERR_ALLOC_FAILED, {})
            /\ UNCHANGED env
       ELSE /\ env' = [env EXCEPT !.extensions.req_inst_exts = Append(@, extension)]
            /\ last' = CallArg("add_required_instance", "none", <<extension>>, ERR_SUCCESS, {})
    /\ faults' = faults + (IF alloc_ok THEN 0 ELSE 1)
    /\ UNCHANGED <<status, gpu_allocator, windows, vk, gen, pc>>

lahar_builder_extension_add_required_device(extension, alloc_ok) ==
    /\ Running("init") /\ pc = Idle
    /\ Len(env.extensions.req_dev_exts) < MaxExtEntries
    /\ extension = NULL_NAME => alloc_ok
    /\ faults + (IF alloc_ok THEN 0 ELSE 1) <= MaxFaults
    /\ IF extension = NULL_NAME
       THEN /\ last' = CallArg("add_required_device", "none", <<extension>>, ERR_ILLEGAL_PARAMS, {})
            /\ UNCHANGED env
       ELSE IF ~alloc_ok
       THEN /\ last' = CallArg("add_required_device", "none", <<extension>>, ERR_ALLOC_FAILED, {})
            /\ UNCHANGED env
       ELSE /\ env' = [env EXCEPT !.extensions.req_dev_exts = Append(@, extension)]
            /\ last' = CallArg("add_required_device", "none", <<extension>>, ERR_SUCCESS, {})
    /\ faults' = faults + (IF alloc_ok THEN 0 ELSE 1)
    /\ UNCHANGED <<status, gpu_allocator, windows, vk, gen, pc>>

lahar_builder_extension_add_optional_instance(extension, alloc_ok) ==
    /\ Running("init") /\ pc = Idle
    /\ Len(env.extensions.opt_inst_exts) < MaxExtEntries
    /\ extension = NULL_NAME => alloc_ok
    /\ faults + (IF alloc_ok THEN 0 ELSE 1) <= MaxFaults
    /\ IF extension = NULL_NAME
       THEN /\ last' = CallArg("add_optional_instance", "none", <<extension>>, ERR_ILLEGAL_PARAMS, {})
            /\ UNCHANGED env
       ELSE IF ~alloc_ok
       THEN /\ last' = CallArg("add_optional_instance", "none", <<extension>>, ERR_ALLOC_FAILED, {})
            /\ UNCHANGED env
       ELSE /\ env' = [env EXCEPT !.extensions.opt_inst_exts = Append(@, extension),
                                         !.extensions.opt_inst_exts_present = Append(@, FALSE)]
            /\ last' = CallArg("add_optional_instance", "none", <<extension>>, ERR_SUCCESS, {})
    /\ faults' = faults + (IF alloc_ok THEN 0 ELSE 1)
    /\ UNCHANGED <<status, gpu_allocator, windows, vk, gen, pc>>

lahar_builder_extension_add_optional_device(extension, alloc_ok) ==
    /\ Running("init") /\ pc = Idle
    /\ Len(env.extensions.opt_dev_exts) < MaxExtEntries
    /\ extension = NULL_NAME => alloc_ok
    /\ faults + (IF alloc_ok THEN 0 ELSE 1) <= MaxFaults
    /\ IF extension = NULL_NAME
       THEN /\ last' = CallArg("add_optional_device", "none", <<extension>>, ERR_ILLEGAL_PARAMS, {})
            /\ UNCHANGED env
       ELSE IF ~alloc_ok
       THEN /\ last' = CallArg("add_optional_device", "none", <<extension>>, ERR_ALLOC_FAILED, {})
            /\ UNCHANGED env
       ELSE /\ env' = [env EXCEPT !.extensions.opt_dev_exts = Append(@, extension),
                                         !.extensions.opt_dev_exts_present = Append(@, FALSE)]
            /\ last' = CallArg("add_optional_device", "none", <<extension>>, ERR_SUCCESS, {})
    /\ faults' = faults + (IF alloc_ok THEN 0 ELSE 1)
    /\ UNCHANGED <<status, gpu_allocator, windows, vk, gen, pc>>

BoolName(b) == IF b THEN "true" ELSE "false"

lahar_extension_has_instance(extension) ==
    /\ status \in {"init", "built", "deinit"} /\ vk.misuse = {} /\ pc = Idle
    /\ last' = CallArg("has_instance", "none", <<extension>>,
                       BoolName(extension_has(env.extensions.opt_inst_exts,
                                              env.extensions.opt_inst_exts_present,
                                              env.extensions.req_inst_exts, extension)), {})
    /\ UNCHANGED <<status, gpu_allocator, windows, vk, gen, faults, pc, env>>

lahar_extension_has_device(extension) ==
    /\ status \in {"init", "built", "deinit"} /\ vk.misuse = {} /\ pc = Idle
    /\ last' = CallArg("has_device", "none", <<extension>>,
                       BoolName(extension_has(env.extensions.opt_dev_exts,
                                              env.extensions.opt_dev_exts_present,
                                              env.extensions.req_dev_exts, extension)), {})
    /\ UNCHANGED <<status, gpu_allocator, windows, vk, gen, faults, pc, env>>

(* SpecExt: one window; the application registers extensions, may ask for *)
(* validation, builds and queries.  The loader enumerates one of          *)
(* PlatformInstanceExtensions, the one device one of ExtDeviceExtensions.  *)
PlatformInstanceExtensions ==
    {AllInstanceExtensions} \cup {AllInstanceExtensions \ {x} : x \in AllInstanceExtensions}

ExtDeviceExtensions == {{VK_KHR_SWAPCHAIN}, {VK_KHR_SWAPCHAIN, "VK_KHR_dynamic_rendering"}}

ExtDevices ==
    {<<[name |-> "a", deviceType |-> "DISCRETE_GPU",
        families |-> <<Family(TRUE, BuildWindowHandles)>>, heaps |-> SmallHeaps,
        extensions |-> x]>> : x \in ExtDeviceExtensions}

InitExt ==
    /\ status = "init"
    /\ gpu_allocator = FALSE
    /\ windows = <<>>
    /\ vk = [live |-> {}, misuse |-> {}]
    /\ gen = 0
    /\ faults = 0
    /\ pc = Idle
    /\ last = Call("lahar_init", "none", ERR_SUCCESS, {})
    /\ env \in {[InitEnv(d) EXCEPT !.wantvalidation = FALSE, !.instance_extensions = p] :
                    d \in ExtDevices, p \in PlatformInstanceExtensions}

NextExt ==
    \/ \E w \in WindowHandles : Register(w, PhysdevWindowConfig, TRUE)
    \/ lahar_builder_request_validation_layers
    \/ \E x \in InstanceExtNames \cup {NULL_NAME}, ok \in BOOLEAN :
            lahar_builder_extension_add_required_instance(x, ok)
    \/ \E x \in DeviceExtNames \cup {NULL_NAME}, ok \in BOOLEAN :
            lahar_builder_extension_add_required_device(x, ok)
    \/ \E x \in InstanceExtNames \cup {NULL_NAME}, ok \in BOOLEAN :
            lahar_builder_extension_add_optional_instance(x, ok)
    \/ \E x \in DeviceExtNames \cup {NULL_NAME}, ok \in BOOLEAN :
            lahar_builder_extension_add_optional_device(x, ok)
    \/ lahar_build(NoEarlyFail, [k \in 1..Len(windows) |-> PhysdevBuildInput])
    \/ \E x \in InstanceExtNames \cup {VK_KHR_SURFACE, NULL_NAME} : lahar_extension_has_instance(x)
    \/ \E x \in DeviceExtNames \cup {NULL_NAME} : lahar_extension_has_device(x)

SpecExt == InitExt /\ [][NextExt]_vars

(* SpecSurface: one window on a device with one of these surface format  *)
(* and present mode lists; the window is resized and the surface's        *)
(* capabilities change between the calls; builds and recreations.         *)
SurfaceChange(caps, size) ==
    /\ status \in {"init", "built"} /\ vk.misuse = {} /\ pc = Idle
    /\ <<caps, size>> # <<env.surface_caps, env.window_size>>
    /\ env' = [env EXCEPT !.surface_caps = caps, !.window_size = size]
    /\ last' = Call("surface_change", "none", ERR_SUCCESS, {})
    /\ UNCHANGED <<status, gpu_allocator, windows, vk, gen, faults, pc>>

SurfaceCaps ==
    {DefaultCaps,
     [minImageCount |-> 2, maxImageCount |-> 2, minImageExtent |-> <<2, 2>>, maxImageExtent |-> <<2, 2>>],
     [minImageCount |-> 3, maxImageCount |-> 0, minImageExtent |-> <<1, 3>>, maxImageExtent |-> <<4, 3>>],
     [minImageCount |-> 0, maxImageCount |-> 1, minImageExtent |-> <<3, 1>>, maxImageExtent |-> <<5, 5>>]}

WindowSizes == {DefaultSize, <<0, 0>>, <<6, 1>>}

SurfaceFormatLists ==
    {DefaultSurfaceFormats,
     <<SurfaceFormat(FORMAT_R8G8B8A8_UNORM, COLORSPACE_SRGB_NONLINEAR),
       SurfaceFormat(FORMAT_B8G8R8A8_SRGB, COLORSPACE_SRGB_NONLINEAR)>>,
     <<SurfaceFormat(FORMAT_B8G8R8A8_SRGB, COLORSPACE_OTHER),
       SurfaceFormat(FORMAT_R8G8B8A8_UNORM, COLORSPACE_SRGB_NONLINEAR),
       SurfaceFormat(FORMAT_B8G8R8A8_SRGB, COLORSPACE_SRGB_NONLINEAR)>>}

PresentModeLists ==
    {DefaultPresentModes,
     <<PRESENT_MODE_FIFO, PRESENT_MODE_MAILBOX>>,
     <<PRESENT_MODE_IMMEDIATE, PRESENT_MODE_FIFO, PRESENT_MODE_MAILBOX>>}

SurfaceDevices ==
    {<<[name |-> "a", deviceType |-> "DISCRETE_GPU",
        families |-> <<Family(TRUE, BuildWindowHandles)>>, heaps |-> SmallHeaps,
        surface_formats |-> f, present_modes |-> m]>> :
            f \in SurfaceFormatLists, m \in PresentModeLists}

SurfaceWindowConfigs ==
    [attachment_count : {1}, desired_swap_size : {0, 1, 3}, max_in_flight : {0},
     no_auto_swap_resize : {FALSE}]

InitSurface ==
    /\ status = "init"
    /\ gpu_allocator = FALSE
    /\ windows = <<>>
    /\ vk = [live |-> {}, misuse |-> {}]
    /\ gen = 0
    /\ faults = 0
    /\ pc = Idle
    /\ last = Call("lahar_init", "none", ERR_SUCCESS, {})
    /\ env \in {InitEnv(d) : d \in SurfaceDevices}

NextSurface ==
    \/ \E w \in WindowHandles, c \in SurfaceWindowConfigs : Register(w, c, TRUE)
    \/ \E caps \in SurfaceCaps, size \in WindowSizes : SurfaceChange(caps, size)
    \/ lahar_build(NoEarlyFail, [k \in 1..Len(windows) |-> PhysdevBuildInput])
    \/ \E w \in WindowHandles : lahar_window_swapchain_resize(w, LinuxAssert)

SpecSurface == InitSurface /\ [][NextSurface]_vars

(* SpecExtent: a window with one or two extra attachments and an          *)
(* allocator, resized between the calls; builds and recreations (a call   *)
(* may fail), by lahar_window_swapchain_resize and by frame_begin.        *)
ExtentWindowConfigs ==
    [attachment_count : 2..3, desired_swap_size : {0}, max_in_flight : {0},
     no_auto_swap_resize : {FALSE}]

NextExtent ==
    \/ AllocatorSet
    \/ \E w \in WindowHandles, c \in ExtentWindowConfigs : Register(w, c, TRUE)
    \/ \E size \in WindowSizes : SurfaceChange(DefaultCaps, size)
    \/ \E inps \in [1..Len(windows) -> BuildInputs] : lahar_build(NoEarlyFail, inps)
    \/ \E w \in WindowHandles : lahar_window_swapchain_resize(w, LinuxAssert)
    \/ \E w \in WindowHandles : lahar_window_frame_begin(w, LinuxAssert)

SpecExtent == Init /\ [][NextExtent]_vars

(* SpecAssert: recreations in any build of the library: a failing         *)
(* LAHAR_ASSERT ends the process (raise(SIGTRAP) or assert()), or the run *)
(* goes on (assert() compiled out by NDEBUG on the builds of line 1911,   *)
(* SIGTRAP taken by a debugger that continues).                            *)
NextAssert ==
    \/ AllocatorSet
    \/ \E w \in WindowHandles, c \in ExtentWindowConfigs : Register(w, c, TRUE)
    \/ \E w \in WindowHandles : Register(w, PhysdevWindowConfig, TRUE)
    \/ \E inps \in [1..Len(windows) -> BuildInputs] : lahar_build(NoEarlyFail, inps)
    \/ \E w \in WindowHandles : lahar_window_swapchain_resize(w, AssertOutcomes)
    \/ \E w \in WindowHandles : lahar_window_frame_begin(w, AssertOutcomes)

SpecAssert == Init /\ [][NextAssert]_vars

(* SpecLayout: layout transitions, frames beginning and recreations on a  *)
(* window with the color attachment and, with an allocator, one more      *)
(* attachment.                                                             *)
LayoutWindowConfigs ==
    [attachment_count : 1..2, desired_swap_size : {0}, max_in_flight : {0},
     no_auto_swap_resize : {FALSE}]

NextLayout ==
    \/ AllocatorSet
    \/ \E w \in WindowHandles, c \in LayoutWindowConfigs : Register(w, c, TRUE)
    \/ \E inps \in CleanInputs(Len(windows)) : lahar_build(NoEarlyFail, inps)
    \/ \E w \in WindowHandles : lahar_window_swapchain_resize(w, LinuxAssert)
    \/ \E w \in WindowHandles : lahar_window_frame_begin(w, LinuxAssert)
    \/ \E w \in WindowHandles, a \in AttachmentCfgs, l \in TransitionTargets, oob \in OobOutcomes :
            lahar_window_attachment_transition(w, a, l, oob)

SpecLayout == Init /\ [][NextLayout]_vars

(* SpecTwo: two windows with the color attachment only, one frame in     *)
(* flight and one swapchain image each, built without a failing call;      *)
(* every per-window operation is applied to either window.                 *)
TwoWindowConfig ==
    [attachment_count |-> 1, desired_swap_size |-> 0, max_in_flight |-> 1,
     no_auto_swap_resize |-> TRUE]

NextTwo ==
    \/ \E w \in BuildWindowHandles : Register(w, TwoWindowConfig, TRUE)
    \/ lahar_build(NoEarlyFail, [k \in 1..Len(windows) |-> TransitionBuildInput])
    \/ \E w \in BuildWindowHandles : lahar_window_swapchain_resize(w, LinuxAssert)
    \/ \E w \in BuildWindowHandles : lahar_window_frame_begin(w, LinuxAssert)
    \/ \E w \in BuildWindowHandles, ok \in BOOLEAN : lahar_window_submit_all(w, 1, ok)
    \/ \E w \in BuildWindowHandles, res \in VkResults : lahar_window_present(w, res)
    \/ \E wi \in 1..Len(windows) : GpuComplete(wi, 0)
    \/ \E w \in BuildWindowHandles : lahar_window_attachment_transition(w, 0, LAYOUT_COLOR, "crash")

SpecTwo == Init /\ [][NextTwo]_vars

(* SpecArena: builds in which any one call of any stage may fail,         *)
(* recreations in which any one call may fail, and frame_begin with its   *)
(* automatic recreation.                                                   *)
NextArena ==
    \/ AllocatorSet
    \/ \E w \in WindowHandles, c \in LayoutWindowConfigs : Register(w, c, TRUE)
    \/ \E early \in EarlyInputs(Len(windows)), inps \in CleanInputs(Len(windows)) :
            lahar_build(early, inps)
    \/ \E inps \in OneFaultInputs(Len(windows)) : lahar_build(NoEarlyFail, inps)
    \/ \E w \in WindowHandles : lahar_window_swapchain_resize(w, LinuxAssert)
    \/ \E w \in WindowHandles : lahar_window_frame_begin(w, LinuxAssert)

SpecArena == Init /\ [][NextArena]_vars

----------------------------------------------------------------------------
(* Properties.  An action property reads the call of a step off last':    *)
(* every action records its own call there.                                *)

(* C1: lahar_window_frame_begin on a registered window whose frame phase  *)
(* is DRAW or PRESENT returns LAHAR_ERR_INVALID_FRAME_STATE, without       *)
(* waiting on a fence or acquiring an image and without changing          *)
(* frame_phase, flight_index or frame_index (nothing of the window state  *)
(* or of the driver changes).                                              *)
C1_FrameBeginRejectedOutsideBegin ==
    [][\A wi \in DOMAIN windows :
          (/\ last'.op = "frame_begin"
           /\ lahar_window_state(windows, last'.window) = wi
           /\ windows[wi].frame_phase \in {PHASE_DRAW, PHASE_PRESENT})
          => (/\ last'.ret = ERR_INVALID_FRAME_STATE
              /\ last'.calls = {}
              /\ windows' = windows /\ vk' = vk /\ status' = status)]_vars

C1_Witness ==
    \E wi \in DOMAIN windows :
        /\ last.op = "frame_begin" /\ last.ret = ERR_INVALID_FRAME_STATE
        /\ windows[wi].window = last.window
        /\ windows[wi].frame_phase = PHASE_DRAW

C3_PresentRejectedOutsidePresent ==
    [][\A wi \in DOMAIN windows :
          (/\ last'.op = "present"
           /\ lahar_window_state(windows, last'.window) = wi
           /\ windows[wi].frame_phase \in {PHASE_BEGIN, PHASE_DRAW})
          => (/\ last'.ret = IF windows[wi].frame_phase = PHASE_DRAW
                             THEN ERR_NO_COMMAND_BUFFER ELSE ERR_INVALID_FRAME_STATE
              /\ "vkQueuePresentKHR" \notin last'.calls
              /\ windows' = windows /\ vk' = vk)]_vars

C3_Witness ==
    \E wi \in DOMAIN windows :
        /\ last.op = "present" /\ last.ret = ERR_NO_COMMAND_BUFFER
        /\ windows[wi].window = last.window
        /\ windows[wi].frame_phase = PHASE_DRAW

(* C4: a successful frame_begin starts from BEGIN and keeps the flight    *)
(* index, a successful submit starts from DRAW and keeps flight and frame *)
(* index, a successful present starts from PRESENT and leaves the window  *)
(* in BEGIN with flight_index = (f + 1) mod max_in_flight and frame_index *)
(* below the swapchain's image count; a successful build leaves flight    *)
(* index 0, so the first cycle with max_in_flight >= 2 ends at 1.         *)
C4_FrameCycle ==
    [][\A wi \in DOMAIN windows \cap DOMAIN windows' :
          LET ws == windows[wi]
              wt == windows'[wi]
              ok(op) == last'.op = op /\ last'.ret = ERR_SUCCESS /\ last'.window = ws.window
          IN  /\ ok("frame_begin") =>
                    /\ ws.frame_phase = PHASE_BEGIN /\ wt.frame_phase = PHASE_DRAW
                    /\ wt.flight_index = ws.flight_index
                    /\ wt.frame_index < wt.swap_size
              /\ ok("submit") =>
                    /\ ws.frame_phase = PHASE_DRAW /\ wt.frame_phase = PHASE_PRESENT
                    /\ wt.flight_index = ws.flight_index
                    /\ wt.frame_index = ws.frame_index
              /\ ok("present") =>
                    /\ ws.frame_phase = PHASE_PRESENT /\ wt.frame_phase = PHASE_BEGIN
                    /\ wt.flight_index = (ws.flight_index + 1) % ws.max_in_flight
                    /\ wt.frame_index = ws.frame_index
                    /\ wt.frame_index < wt.swap_size
              /\ (last'.op = "build" /\ last'.ret = ERR_SUCCESS) =>
                    /\ wt.frame_phase = PHASE_BEGIN /\ wt.flight_index = 0
                    /\ (wt.max_in_flight >= 2 => (wt.flight_index + 1) % wt.max_in_flight = 1)]_vars

C4_Witness ==
    \E wi \in DOMAIN windows :
        /\ last.op = "present" /\ last.ret = ERR_SUCCESS
        /\ windows[wi].max_in_flight = 2
        /\ windows[wi].flight_index = 0
        /\ windows[wi].frame_phase = PHASE_BEGIN
        /\ windows[wi].frame_index < windows[wi].swap_size

C6_FlightIndexInRange ==
    /\ [](\A wi \in DOMAIN windows :
            LET ws == windows[wi]
            IN  ws.attachment_count >= 1 =>
                    /\ ws.max_in_flight >= 1
                    /\ ws.flight_index >= 0 /\ ws.flight_index < ws.max_in_flight
                    /\ status = "built" =>
                        /\ ws.flight_index \in DOMAIN ws.in_flight
                        /\ ws.flight_index \in DOMAIN ws.image_available
                        /\ ws.flight_index \in DOMAIN ws.render_finished
                        /\ ws.in_flight[ws.flight_index] # "uninit"
                        /\ ws.image_available[ws.flight_index] # "uninit"
                        /\ ws.render_finished[ws.flight_index] # "uninit")
    /\ [][\A wi \in DOMAIN windows \cap DOMAIN windows' :
            windows'[wi].flight_index # windows[wi].flight_index =>
                last'.op = "present" /\ last'.ret = ERR_SUCCESS]_vars

C6_Witness ==
    \E wi \in DOMAIN windows :
        /\ status = "built"
        /\ last.op = "present" /\ last.ret = ERR_SUCCESS
        /\ windows[wi].max_in_flight = MaxInFlight
        /\ windows[wi].flight_index = windows[wi].max_in_flight - 1

(* C7: when the acquire in frame_begin reports the swapchain out of date  *)
(* or suboptimal, a window with auto_recreate_swap rebuilds and retries,  *)
(* and a frame_begin whose rebuild failed returns an error with the phase *)
(* still BEGIN; without auto_recreate_swap frame_begin returns            *)
(* LAHAR_ERR_SWAPCHAIN_OUT_OF_DATE, phase BEGIN, the flight fence not     *)
(* reset.                                                                  *)
C7_StaleAcquire ==
    \A wi \in DOMAIN windows :
        (/\ last.op = "frame_begin" /\ last.window = windows[wi].window
         /\ pc = Idle /\ last.ret # "NO_RETURN")
        => /\ "recreate_failed" \in last.calls =>
                /\ last.ret # ERR_SUCCESS
                /\ windows[wi].frame_phase = PHASE_BEGIN
           /\ last.ret = ERR_SWAPCHAIN_OUT_OF_DATE =>
                /\ ~windows[wi].auto_recreate_swap
                /\ windows[wi].frame_phase = PHASE_BEGIN
                /\ "vkResetFences" \notin last.calls

(* C8: for each window the number of submitted frames whose GPU work has  *)
(* not completed is at most max_in_flight, and a frame that has begun     *)
(* (phase DRAW) is on a flight slot with no submitted work left           *)
(* executing: frame_begin waited on the slot's fence first.               *)
C8_FramesInFlightBounded ==
    \A wi \in DOMAIN windows :
        LET ws == windows[wi]
        IN  /\ InFlightFrames(ws) <= ws.max_in_flight
            /\ ws.frame_phase = PHASE_DRAW => ws.gpu_work[ws.flight_index] = 0

C8_Witness ==
    \E wi \in DOMAIN windows :
        /\ windows[wi].max_in_flight = 2
        /\ InFlightFrames(windows[wi]) = 2
        /\ last.op = "present" /\ last.ret = ERR_SUCCESS

(* C9: in every swapchain recreation (lahar_window_swapchain_resize or    *)
(* the auto-recreate of frame_begin) the old views, extra images and      *)
(* swapchain are destroyed only after the wait on all flight fences, so   *)
(* no submitted frame of the window is executing then, and the new        *)
(* swapchain is created only after the old one was destroyed.             *)
C9_RecreationOrder ==
    [][(last'.op \in {"resize", "frame_begin"} /\ vk.live \ vk'.live # {}) =>
            \A wi \in DOMAIN windows \cap DOMAIN windows' :
                /\ Pending(windows'[wi]) = {}
                /\ InFlightFrames(windows'[wi]) = 0
                /\ "destroy_busy" \notin vk'.misuse
                /\ gen' # gen => windows[wi].swapchain \notin vk'.live]_vars

C9_Witness ==
    \E wi \in DOMAIN windows :
        /\ last.op = "resize" /\ last.ret = ERR_SUCCESS
        /\ "gpu_was_busy" \in last.calls
        /\ windows[wi].attachment_count = 2
        /\ windows[wi].swapchain \in vk.live

(* C10: after a lahar_window_swapchain_resize that returned success on a  *)
(* window in phase BEGIN the window has exactly one live swapchain, its   *)
(* own, and exactly one live view per swap image and attachment, none of  *)
(* an earlier generation.                                                  *)
C10_ResizeLeavesOneSwapchain ==
    \A wi \in DOMAIN windows :
        LET ws == windows[wi]
        IN  (/\ last.op = "resize" /\ last.ret = ERR_SUCCESS /\ last.window = ws.window
             /\ status = "built" /\ ws.frame_phase = PHASE_BEGIN)
            => /\ {h \in vk.live : h[1] = "swapchain"} = {ws.swapchain}
               /\ {h \in vk.live : h[1] = "view"} =
                    {ViewHandle(ws.swapchain[2], a, i) :
                        a \in 0..(ws.attachment_count - 1), i \in 0..(ws.swap_size - 1)}

(* C11: lahar_deinit run after a failed call of lahar_build, on windows   *)
(* that were all registered in full, uses the driver validly: it passes   *)
(* no never-initialised or null handle to a destroy or wait call and      *)
(* dereferences no unallocated array.                                      *)
C11_DeinitAfterFailedBuildIsSafe ==
    [][("lahar_deinit" \in last'.calls /\ \A k \in 1..Len(windows) : windows[k].attachment_count > 0)
            => vk'.misuse = {}]_vars

(* C12: whenever lahar_build returns an error code, lahar_deinit has run  *)
(* in full before the return: every driver object the build created is    *)
(* destroyed, no window is registered any more and the environment holds  *)
(* no instance, no debug messenger, no device and no allocator.           *)
C12_FailedBuildRanDeinit ==
    [][(last'.op = "build" /\ last'.ret \notin {ERR_SUCCESS, "NO_RETURN"})
            => /\ "lahar_deinit" \in last'.calls
               /\ status' = "deinit"
               /\ windows' = <<>>
               /\ vk'.live = {}
               /\ env'.instance = NullHandle
               /\ env'.debug_messenger = NullHandle
               /\ env'.device = NullHandle
               /\ env'.physdev_info = NoDevice
               /\ gpu_allocator' = FALSE]_vars

(* A build that failed after it had created a swapchain.                  *)
C12_Witness ==
    /\ last.op = "build"
    /\ last.ret \notin {ERR_SUCCESS, "NO_RETURN"}
    /\ gen > 0
    /\ status = "deinit"

(* C13: when a call made by lahar_build or by                             *)
(* lahar_window_swapchain_resize fails and the operation returns, it      *)
(* returns a non-zero error code.                                          *)
C13_FailuresAreReported ==
    [][(/\ \/ last'.op = "build" /\ "call_failed" \in last'.calls
           \/ last'.op = "resize" /\ "recreate_failed" \in last'.calls
        /\ last'.ret # "NO_RETURN")
            => last'.ret # ERR_SUCCESS]_vars

(* C14: in a build with at least one window and the default scorer, a     *)
(* device with no graphics-capable queue family, or with no queue family  *)
(* that presents on the surface of every registered window, scores -1 and *)
(* is not the selected device; the build returns                          *)
(* LAHAR_ERR_NO_SUITABLE_DEVICE exactly when no device is enumerated or   *)
(* every device has a negative score.                                      *)
C14_IneligibleNeverSelected ==
    [][(last'.op = "build" /\ Len(windows) > 0 /\ ~env.score_func.custom)
            => LET devs == env.devices
                   HasGraphics(d) == \E j \in 1..Len(d.families) : d.families[j].graphics
                   HasPresent(d) == \E j \in 1..Len(d.families) :
                                        \A k \in 1..Len(windows) :
                                            windows[k].window \in d.families[j].present_on
                   score(i) == default_scorer(DevInfo(devs[i], i, windows))
                   selected == IF last'.ret = ERR_SUCCESS THEN env'.physdev_info.physdev ELSE 0
               IN  /\ \A i \in 1..Len(devs) :
                        (~HasGraphics(devs[i]) \/ ~HasPresent(devs[i]))
                            => score(i) = -1 /\ selected # i
                   /\ last'.ret = ERR_NO_SUITABLE_DEVICE <=> \A i \in 1..Len(devs) : score(i) < 0
                   /\ last'.ret \in {ERR_SUCCESS, ERR_NO_SUITABLE_DEVICE}]_vars

(* Two windows, and a first device whose only family presents on one of   *)
(* them: the second device was selected.                                   *)
C14_Witness ==
    /\ last.op = "build" /\ last.ret = ERR_SUCCESS
    /\ ~env.score_func.custom
    /\ Len(windows) = 2
    /\ Len(env.devices) = 2
    /\ env.devices[1].families = <<Family(TRUE, {"w1"})>>
    /\ env.physdev_info.physdev = 2

(* C15: in a build with at least one window, with the default or a        *)
(* caller's scoring function, when the highest score of the enumeration   *)
(* is not negative the selected device is the first one (lowest index)    *)
(* with that score.                                                        *)
C15_FirstOfTheBest ==
    [][(last'.op = "build" /\ Len(windows) > 0)
            => LET n == Len(env.devices)
                   score(i) == Score(env.score_func, DevInfo(env.devices[i], i, windows))
                   best == {i \in 1..n : \A j \in 1..n : score(j) <= score(i)}
               IN  (best # {} /\ \A i \in best : score(i) >= 0)
                        => /\ last'.ret = ERR_SUCCESS
                           /\ env'.physdev_info.physdev = CHOOSE i \in best : \A j \in best : i <= j
                           /\ env'.physdev_info.name = env.devices[env'.physdev_info.physdev].name]_vars

(* Two devices with different names and the same score under the caller's *)
(* function: the first was selected.                                       *)
C15_Witness ==
    /\ last.op = "build" /\ last.ret = ERR_SUCCESS
    /\ env.score_func.custom
    /\ Len(env.devices) = 2
    /\ env.devices[1].name # env.devices[2].name
    /\ env.score_func.table[env.devices[1].name] = env.score_func.table[env.devices[2].name]
    /\ env.physdev_info.physdev = 1

(* C16: in a build with the default scorer the score of an eligible       *)
(* device is 1000 (discrete), 100 (integrated) or 0, plus 50 when the     *)
(* graphics and present family are the same, plus 1000 per 100 GB of the  *)
(* device's device-local heaps; of two devices that differ only in their  *)
(* device-local memory the one with more is selected.                      *)
C16_MoreMemoryWins ==
    [][(last'.op = "build" /\ last'.ret = ERR_SUCCESS /\ Len(windows) > 0 /\ ~env.score_func.custom)
            => LET devs == env.devices
                   info(i) == DevInfo(devs[i], i, windows)
                   local(i) == LocalMemory(devs[i].heaps, Len(devs[i].heaps))
                   expected(i) ==
                        (IF devs[i].deviceType = "DISCRETE_GPU" THEN 1000
                         ELSE IF devs[i].deviceType = "INTEGRATED_GPU" THEN 100 ELSE 0)
                        + (IF info(i).present_queue_index = info(i).graphics_queue_index THEN 50 ELSE 0)
                        + (local(i) * 1000) \div 100
                   selected == env'.physdev_info.physdev
               IN  /\ \A i \in 1..Len(devs) :
                        (info(i).has_graphics_queue /\ info(i).has_present_queue)
                            => Score(env.score_func, info(i)) = expected(i)
                   /\ (/\ Len(devs) = 2
                       /\ [devs[1] EXCEPT !.heaps = devs[2].heaps] = devs[2]
                       /\ local(1) # local(2))
                            => \A i \in 1..2 : local(i) <= local(selected)]_vars

(* C17: in a build after lahar_builder_device_use pinned a name, the      *)
(* selected device has that name, and when no enumerated device has it    *)
(* the build returns LAHAR_ERR_NO_SUITABLE_DEVICE.                         *)
C17_PinnedNameSelected ==
    [][(last'.op = "build" /\ Len(windows) > 0 /\ env.device_name # "")
            => /\ last'.ret = ERR_SUCCESS => env'.physdev_info.name = env.device_name
               /\ (\A i \in 1..Len(env.devices) : env.devices[i].name # env.device_name)
                        => last'.ret = ERR_NO_SUITABLE_DEVICE]_vars

(* C18: a registration that succeeds stores 2 for a configured            *)
(* desired_swap_size or max_in_flight of 0 and the configured value       *)
(* otherwise; a build that succeeds and a resize leave both values as     *)
(* they were, and every built window has a swapchain, a non-zero          *)
(* desired_img_count, a non-zero max_in_flight and max_in_flight sync     *)
(* objects of each kind.                                                   *)
C18_CountsNormalised ==
    [][/\ (last'.op = "register" /\ last'.ret = ERR_SUCCESS)
            => LET ws == windows'[Len(windows')]
               IN  /\ Len(windows') = Len(windows) + 1
                   /\ ws.desired_img_count = IF last'.arg[2] = 0 THEN 2 ELSE last'.arg[2]
                   /\ ws.max_in_flight = IF last'.arg[3] = 0 THEN 2 ELSE last'.arg[3]
       /\ (last'.op = "build" /\ last'.ret = ERR_SUCCESS)
            => /\ Len(windows') = Len(windows)
               /\ \A k \in 1..Len(windows) :
                    /\ windows'[k].swapchain # NullHandle
                    /\ windows'[k].desired_img_count = windows[k].desired_img_count
                    /\ windows'[k].desired_img_count # 0
                    /\ windows'[k].max_in_flight = windows[k].max_in_flight
                    /\ windows'[k].max_in_flight # 0
                    /\ Len2(windows'[k].in_flight) = windows'[k].max_in_flight
                    /\ Len2(windows'[k].image_available) = windows'[k].max_in_flight
       /\ (last'.op = "resize" /\ last'.ret # "NO_RETURN")
            => /\ Len(windows') = Len(windows)
               /\ \A k \in 1..Len(windows) :
                    /\ windows'[k].desired_img_count = windows[k].desired_img_count
                    /\ windows'[k].desired_img_count # 0]_vars

(* Two built windows: one configured with 1 and 1, one with values that   *)
(* became 2.                                                               *)
C18_Witness ==
    /\ last.op = "build" /\ last.ret = ERR_SUCCESS
    /\ Len(windows) = 2
    /\ windows[1].desired_img_count = 1 /\ windows[1].max_in_flight = 1
    /\ windows[2].desired_img_count = 2 /\ windows[2].max_in_flight = 2

(* C19: a window registration that returns an error leaves the windows    *)
(* of the environment (their number and their states) as they were.       *)
C19_FailedRegistrationChangesNothing ==
    [][(last'.op = "register" /\ last'.ret # ERR_SUCCESS) => windows' = windows]_vars

(* C20: a lahar_window_attachment_transition that returns success leaves  *)
(* the attachment instance of the current frame_index in the requested    *)
(* layout, and when the call before it was the same call (same window,    *)
(* attachment index and layout, nothing in between) it records no barrier *)
(* and changes nothing.                                                    *)
C20_TransitionIdempotent ==
    [][(last'.op = "transition" /\ last'.ret = ERR_SUCCESS /\ vk'.misuse = {})
            => LET wi == lahar_window_state(windows', last'.window)
                   ws == windows'[wi]
               IN  /\ ws.attachments[last'.arg[1]][ws.frame_index].layout = last'.arg[2]
                   /\ (/\ last.op = "transition" /\ last.ret = ERR_SUCCESS
                       /\ last.window = last'.window /\ last.arg = last'.arg)
                            => /\ "vkCmdPipelineBarrier" \notin last'.calls
                               /\ windows' = windows]_vars

(* A transition to the color layout that recorded nothing: the layout had *)
(* been set by an earlier call.                                            *)
C20_Witness ==
    /\ last.op = "transition" /\ last.ret = ERR_SUCCESS
    /\ last.arg = <<0, LAYOUT_COLOR>>
    /\ last.calls = {}
    /\ vk.misuse = {}

(* C21: a barrier recorded by lahar_window_attachment_transition from the *)
(* recorded layout A to the target B has oldLayout A and newLayout B, the *)
(* access mask and stage of A as its source and the access mask and stage *)
(* of B as its destination.                                                *)
C21_BarrierMasks ==
    [][(last'.op = "transition" /\ last'.barrier # <<>>)
            => LET wi == lahar_window_state(windows, last'.window)
                   ws == windows[wi]
                   A == ws.attachments[last'.arg[1]][ws.frame_index].layout
                   B == last'.arg[2]
                   b == last'.barrier[1]
               IN  /\ A # B
                   /\ b.oldLayout = A /\ b.newLayout = B
                   /\ b.srcAccessMask = access_mask(A) /\ b.srcStage = pipeline_stage(A)
                   /\ b.dstAccessMask = access_mask(B) /\ b.dstStage = pipeline_stage(B)]_vars

(* C22: the aspect mask of a recorded transition barrier follows from the *)
(* transitioned attachment's own configured usage and format: depth and   *)
(* stencil for a depth-stencil attachment of a combined format, stencil   *)
(* for a stencil-only format, depth for a depth-only format, color for an *)
(* attachment that is not depth-stencil.                                   *)
C22_AspectFromOwnFormat ==
    [][(last'.op = "transition" /\ last'.barrier # <<>>)
            => LET wi == lahar_window_state(windows, last'.window)
                   conf == windows[wi].attachment_configs[last'.arg[1]]
                   aspect == last'.barrier[1].aspectMask
               IN  /\ conf.usage # USAGE_DEPTH_STENCIL => aspect = {"COLOR"}
                   /\ (conf.usage = USAGE_DEPTH_STENCIL
                        /\ conf.format \in {FORMAT_D24_UNORM_S8_UINT, FORMAT_D32_SFLOAT_S8_UINT})
                            => aspect = {"DEPTH", "STENCIL"}
                   /\ (conf.usage = USAGE_DEPTH_STENCIL /\ conf.format = FORMAT_S8_UINT)
                            => aspect = {"STENCIL"}
                   /\ (conf.usage = USAGE_DEPTH_STENCIL
                        /\ conf.format \in {FORMAT_D16_UNORM, FORMAT_D32_SFLOAT})
                            => aspect = {"DEPTH"}]_vars

(* C23: after the registrations and a successful build, a query            *)
(* lahar_extension_has_instance / lahar_extension_has_device answers true *)
(* exactly for a name that is in the required list of its scope, or in    *)
(* the optional list with its granted flag set; so a required name        *)
(* answers true even when it is also optional and not granted.            *)
C23_HasIffRequiredOrGranted ==
    [][(last'.op \in {"has_instance", "has_device"} /\ status = "built")
            => LET x == last'.arg[1]
                   inst == last'.op = "has_instance"
                   req == IF inst THEN env.extensions.req_inst_exts ELSE env.extensions.req_dev_exts
                   opt == IF inst THEN env.extensions.opt_inst_exts ELSE env.extensions.opt_dev_exts
                   present == IF inst THEN env.extensions.opt_inst_exts_present
                              ELSE env.extensions.opt_dev_exts_present
               IN  (last'.ret = "true")
                        <=> \/ \E i \in 1..Len(req) : req[i] = x
                            \/ \E i \in 1..Len(opt) : opt[i] = x /\ present[i]]_vars

(* C24: after a successful build every registered required device         *)
(* extension is among the extensions the logical device was created with, *)
(* and the granted flag of every registered optional device extension is  *)
(* true exactly when the selected device enumerates it, in which case it  *)
(* was enabled too.                                                         *)
C24_DeviceExtensionsNegotiated ==
    status = "built"
        => LET e == env.extensions
               enabled == {env.device_create_info.enabledExtensionNames[i] :
                                i \in 1..Len(env.device_create_info.enabledExtensionNames)}
               selected == env.devices[env.physdev_info.physdev]
           IN  /\ \A i \in 1..Len(e.req_dev_exts) : e.req_dev_exts[i] \in enabled
               /\ \A i \in 1..Len(e.opt_dev_exts) :
                    /\ e.opt_dev_exts_present[i] <=> e.opt_dev_exts[i] \in DevExtensions(selected)
                    /\ e.opt_dev_exts_present[i] => e.opt_dev_exts[i] \in enabled

(* C25: a build with a window registered, whose instance extension list   *)
(* (the required instance extensions, the window backend's, the debug     *)
(* extension when validation was requested) has a name the platform does  *)
(* not enumerate, returns LAHAR_ERR_MISSING_EXTENSION and does not call   *)
(* vkCreateInstance: no instance exists afterwards.                        *)
C25_MissingExtensionStopsBuild ==
    [][(/\ last'.op = "build" /\ Len(windows) > 0
        /\ LET names == {env.extensions.req_inst_exts[i] :
                            i \in 1..Len(env.extensions.req_inst_exts)}
                        \cup {WindowExtensions[i] : i \in 1..Len(WindowExtensions)}
                        \cup (IF env.wantvalidation THEN {VK_EXT_DEBUG_UTILS} ELSE {})
           IN  names \ env.instance_extensions # {})
            => /\ last'.ret = ERR_MISSING_EXTENSION
               /\ "vkCreateInstance" \notin last'.calls
               /\ InstanceHandle \notin vk'.live]_vars

C25_Witness ==
    /\ last.op = "build" /\ last.ret = ERR_MISSING_EXTENSION
    /\ "vkCreateInstance" \notin last.calls
    /\ status = "deinit" /\ InstanceHandle \notin vk.live

(* C26: a build without a failing call, with a window of more than one    *)
(* attachment and no allocator set, returns                                *)
(* LAHAR_ERR_ATTACHMENT_WO_ALLOCATOR.                                      *)
C26_AttachmentWithoutAllocator ==
    [][(/\ last'.op = "build" /\ "call_failed" \notin last'.calls
        /\ ~gpu_allocator
        /\ \E k \in 1..Len(windows) : windows[k].attachment_count > 1
        /\ \A k \in 1..Len(windows) : windows[k].attachment_count > 0)
            => last'.ret = ERR_ATTACHMENT_WO_ALLOCATOR]_vars

(* C27: a build with no window registered and no failing call reads no    *)
(* window state and succeeds: the instance and the device are created.    *)
C27_BuildWithoutWindows ==
    [][(last'.op = "build" /\ "call_failed" \notin last'.calls /\ Len(windows) = 0)
            => /\ "null_deref" \notin vk'.misuse
               /\ status' = "built" /\ last'.ret = ERR_SUCCESS
               /\ {InstanceHandle, DeviceHandle} \subseteq vk'.live]_vars

(* C28: after a successful build the logical device was created with one  *)
(* queue family for graphics and presentation whenever the selected       *)
(* device has a family that is graphics-capable and presents on every     *)
(* registered window; two distinct families only when it has none.        *)
C28_SharedFamilyWhenPossible ==
    status = "built"
        => LET selected == env.devices[env.physdev_info.physdev]
               common == \E j \in 1..Len(selected.families) :
                            /\ selected.families[j].graphics
                            /\ \A k \in 1..Len(windows) :
                                    windows[k].window \in selected.families[j].present_on
           IN  common => Len(env.device_create_info.queueFamilyIndices) = 1

(* C29: after a successful build with the default choosers, the device's  *)
(* captured surface formats and present modes are the first               *)
(* min(reported, LAHAR_MAX_DEVICE_ENTRIES) reported ones and the recorded *)
(* counts are their numbers; the window's surface format is the BGRA-8    *)
(* SRGB / SRGB-nonlinear one when it is among the captured formats and    *)
(* the first captured format otherwise; its present mode is MAILBOX when  *)
(* that is among the captured modes and FIFO otherwise.                    *)
C29_DefaultChoosers ==
    status = "built"
        => LET info == env.physdev_info
               selected == env.devices[info.physdev]
               formats == Captured(DevSurfaceFormats(selected))
               modes == Captured(DevPresentModes(selected))
               bgra == SurfaceFormat(FORMAT_B8G8R8A8_SRGB, COLORSPACE_SRGB_NONLINEAR)
           IN  /\ info.surface_formats = formats /\ info.surface_fmt_count = Len(formats)
               /\ info.present_modes = modes /\ info.present_mode_count = Len(modes)
               /\ \A k \in 1..Len(windows) :
                    /\ windows[k].surface_format =
                            IF \E i \in 1..Len(formats) : formats[i] = bgra THEN bgra ELSE formats[1]
                    /\ windows[k].create_info.presentMode =
                            IF \E i \in 1..Len(modes) : modes[i] = PRESENT_MODE_MAILBOX
                            THEN PRESENT_MODE_MAILBOX ELSE PRESENT_MODE_FIFO

(* C30: whenever a build or a recreation creates a window's swapchain and *)
(* the reported capabilities have min <= max (a maxImageCount of 0 being  *)
(* no limit), the requested extent lies between minImageExtent and        *)
(* maxImageExtent in both dimensions and the requested image count is at  *)
(* least minImageCount and, when maxImageCount > 0, at most maxImageCount. *)
C30_CreateInfoWithinCaps ==
    [][\A k \in 1..Len(windows') :
        (/\ last'.op \in {"build", "resize"}
         /\ windows'[k].swapchain # NullHandle
         /\ (k > Len(windows) \/ windows'[k].swapchain # windows[k].swapchain)
         /\ env.surface_caps.minImageExtent[1] <= env.surface_caps.maxImageExtent[1]
         /\ env.surface_caps.minImageExtent[2] <= env.surface_caps.maxImageExtent[2]
         /\ (env.surface_caps.maxImageCount = 0
                \/ env.surface_caps.minImageCount <= env.surface_caps.maxImageCount))
            => LET caps == env.surface_caps
                   ci == windows'[k].create_info
               IN  /\ caps.minImageExtent[1] <= ci.imageExtent[1]
                   /\ ci.imageExtent[1] <= caps.maxImageExtent[1]
                   /\ caps.minImageExtent[2] <= ci.imageExtent[2]
                   /\ ci.imageExtent[2] <= caps.maxImageExtent[2]
                   /\ caps.minImageCount <= ci.minImageCount
                   /\ caps.maxImageCount > 0 => ci.minImageCount <= caps.maxImageCount]_vars

C30_Witness ==
    /\ status = "built" /\ last.op = "resize" /\ last.ret = ERR_SUCCESS
    /\ \E k \in 1..Len(windows) :
        /\ windows[k].swapchain # NullHandle
        /\ windows[k].create_info.minImageCount > windows[k].desired_img_count
        /\ windows[k].create_info.imageExtent[1] < env.window_size[1]
        /\ windows[k].create_info.imageExtent[2] > env.window_size[2]

(* C31: after a successful swapchain recreation (lahar_window_swapchain_resize *)
(* or the auto-recreate of frame_begin, no call of it failing) every      *)
(* extra attachment's images were allocated with the width and height the *)
(* windowing backend reports for the window at that time, the size the    *)
(* new swapchain's extent was computed from.                               *)
C31_ExtraAttachmentsFollowWindowSize ==
    \A wi \in DOMAIN windows :
        LET ws == windows[wi]
        IN  (/\ status = "built"
             /\ last.window = ws.window
             /\ \/ last.op = "resize" /\ last.ret = ERR_SUCCESS
                \/ last.op = "frame_begin" /\ "resize" \in last.calls
                                           /\ last.ret \in {ERR_SUCCESS, "RETRY"}
             /\ "recreate_failed" \notin last.calls)
            => \A a \in 1..(ws.attachment_count - 1) :
                    ws.img_info_extent[a] = env.window_size

(* The live semaphores and fences of window number wi.                    *)
SyncKinds == {"image_available", "render_finished", "in_flight"}

SyncLive(v, wi) == {h \in v.live : h[1] \in SyncKinds /\ h[2] = wi}

(* C32: a successful build leaves every window with exactly max_in_flight *)
(* image-available semaphores, render-finished semaphores and fences,     *)
(* every fence signaled; no frame_begin ever blocks for good on a fence;  *)
(* a swapchain recreation (lahar_window_swapchain_resize or the           *)
(* auto-recreate of frame_begin, succeeding or not) creates and destroys  *)
(* no semaphore and no fence and leaves frame_phase, flight_index and     *)
(* max_in_flight as they were.                                             *)
C32_SyncObjectsMadeOnce ==
    [][/\ (last'.op = "build" /\ last'.ret = ERR_SUCCESS) =>
            \A wi \in DOMAIN windows' :
                LET ws == windows'[wi]
                IN  /\ SyncLive(vk', wi) =
                            {SemHandle(kind, wi, s) : kind \in SyncKinds, s \in Slots(ws)}
                    /\ DOMAIN ws.image_available = Slots(ws)
                    /\ DOMAIN ws.render_finished = Slots(ws)
                    /\ DOMAIN ws.in_flight = Slots(ws)
                    /\ \A s \in Slots(ws) : ws.in_flight[s] = "signaled"
       /\ last'.op = "frame_begin" => status' # "hung"
       /\ (\/ last'.op = "resize"
           \/ last'.op = "frame_begin" /\ "resize" \in last'.calls /\ last'.ret # ERR_SUCCESS) =>
            \A wi \in DOMAIN windows :
                /\ SyncLive(vk', wi) = SyncLive(vk, wi)
                /\ DOMAIN windows'[wi].image_available = DOMAIN windows[wi].image_available
                /\ DOMAIN windows'[wi].render_finished = DOMAIN windows[wi].render_finished
                /\ DOMAIN windows'[wi].in_flight = DOMAIN windows[wi].in_flight
                /\ windows'[wi].frame_phase = windows[wi].frame_phase
                /\ windows'[wi].flight_index = windows[wi].flight_index
                /\ windows'[wi].max_in_flight = windows[wi].max_in_flight]_vars

(* The second frame_begin after the build, with the first frame's work    *)
(* still executing, recreated the swapchain and went through.             *)
C32_Witness ==
    \E wi \in DOMAIN windows :
        /\ windows[wi].max_in_flight = 2
        /\ windows[wi].flight_index = 1
        /\ windows[wi].frame_phase = PHASE_DRAW
        /\ gen = 2
        /\ last.op = "frame_begin" /\ last.ret = ERR_SUCCESS
        /\ {"resize", "gpu_was_busy"} \subseteq last.calls

(* C33: a swapchain recreation (lahar_window_swapchain_resize or the      *)
(* auto-recreate of frame_begin) that succeeds leaves the window's        *)
(* swap_size as it was, and no recreation writes an attachment entry at   *)
(* an index past the end of the arrays allocated at the first build.      *)
C33_RecreationKeepsSwapSize ==
    [][(last'.op \in {"resize", "frame_begin"}) =>
            /\ "oob_write" \notin vk'.misuse
            /\ last'.ret \in {ERR_SUCCESS, "RETRY"} =>
                    \A wi \in DOMAIN windows : windows'[wi].swap_size = windows[wi].swap_size]_vars

(* The call recorded in l was a build or a swapchain recreation in which  *)
(* every call succeeded, and the program runs on.                          *)
AfterCreation(l, st) ==
    /\ st = "built"
    /\ \/ l.op \in {"build", "resize"} /\ l.ret = ERR_SUCCESS
       \/ l.op = "frame_begin" /\ l.ret = "RETRY"
    /\ l.calls \cap {"call_failed", "recreate_failed"} = {}

C35_ResizeTerminates ==
    [][last'.op = "resize" =>
            /\ status' # "hung"
            /\ \A wi \in DOMAIN windows :
                    windows[wi].window = last'.window =>
                        ~WaitBlocksForever(windows[wi].in_flight, Slots(windows[wi]))]_vars

(* C36: for each flight slot the signals and waits of the image-available  *)
(* semaphore alternate: every vkAcquireNextImageKHR of frame_begin, the    *)
(* one after an automatic recreation in the same call included, is handed  *)
(* a semaphore that is not signaled (the acquire before it either handed   *)
(* out no image or has been waited on by a submit).                        *)
C36_SemaphoreAlternates ==
    [][(last'.op = "frame_begin" /\ "vkAcquireNextImageKHR" \in last'.calls)
            => "acquire_signaled_semaphore" \notin last'.calls]_vars

(* C37: over build, resize (successful or failing part-way) and deinit no  *)
(* image view, extra-attachment image, swapchain, semaphore or fence is    *)
(* handed to its destroy call after it has been destroyed already.         *)
C37_NoDoubleDestroy == "destroy_dead" \notin vk.misuse

(* The fields of a window state that make up its frame state machine.      *)
FrameState(ws) ==
    <<ws.frame_phase, ws.flight_index, ws.frame_index, ws.swapchain, ws.attachments>>

WindowOps == {"frame_begin", "submit", "present", "transition", "resize"}

C39_QueueFailureKeepsFrame ==
    [][/\ (last'.op \in {"submit", "present"} /\ last'.driver # <<>> /\ last'.driver # <<VK_SUCCESS>>)
            => LET wi == lahar_window_state(windows, last'.window)
               IN  /\ last'.ret = ERR_VK_ERR
                   /\ last'.vkresult = last'.driver
                   /\ windows'[wi].frame_phase = windows[wi].frame_phase
                   /\ windows'[wi].flight_index = windows[wi].flight_index
                   /\ windows'[wi].frame_index = windows[wi].frame_index
       /\ \A wi \in 1..Len(windows) :
            (status = "built" /\ status' = "built" /\ windows[wi].frame_phase = PHASE_PRESENT)
                => /\ (last'.op = "frame_begin" /\ last'.window = windows[wi].window
                        /\ lahar_window_state(windows, last'.window) = wi)
                            => last'.ret = ERR_INVALID_FRAME_STATE
                   /\ windows'[wi].frame_phase # PHASE_PRESENT
                            => /\ last'.op = "present" /\ last'.ret = ERR_SUCCESS
                               /\ last'.window = windows[wi].window]_vars

(* A present whose queue call reported the swapchain out of date: the      *)
(* window is still in PRESENT and lahar->vkresult holds the result.        *)
C39_Witness ==
    /\ last.op = "present" /\ last.ret = ERR_VK_ERR
    /\ last.driver = <<VK_OUT_OF_DATE>> /\ last.vkresult = <<VK_OUT_OF_DATE>>
    /\ LET wi == lahar_window_state(windows, last.window)
       IN  /\ wi # 0
           /\ windows[wi].frame_phase = PHASE_PRESENT
           /\ windows[wi].flight_index = 1

(* C40: the checkpoint stack of the scratch arena is balanced: when a     *)
(* build, a resize or a frame_begin (its automatic recreation and retry   *)
(* included) returns, the checkpoint depth is 0 and the arena position is  *)
(* what it was before the call, and the depth never reaches the capacity  *)
(* of the checkpoint stack.                                                *)
C40_ArenaBalanced ==
    [][/\ last'.ret # "NO_RETURN"
            => /\ env'.arena.mcheck = <<>>
               /\ env'.arena.mpos = env.arena.mpos
       /\ env'.arena.peak < LAHAR_M_CHECK_CT]_vars

(* frame_begin has recreated the swapchain and acquired from the new one: *)
(* the resizer's checkpoint has been pushed and popped.                    *)
C40_Witness ==
    /\ last.op = "frame_begin" /\ last.ret = ERR_SUCCESS
    /\ "resize" \in last.calls
    /\ env.arena = [mpos |-> 0, mcheck |-> <<>>, peak |-> 1]

====
